---- MODULE Spec2Model ----
(***************************************************************************)
(* Model of izi-noir: the ACIR -> R1CS converter, the Groth16 pipeline     *)
(* (setup / prove / verify) and the gnark-compatible byte format of the    *)
(* arkworks-groth16-wasm package.                                          *)
(*                                                                         *)
(* BN254 is scaled down to a curve of the same shape that TLC can          *)
(* enumerate: base field Fq = GF(7), scalar field Fr = GF(13),             *)
(*   G1 : y^2 = x^3 + 3         over Fq   (13 points, cofactor 1)          *)
(*   G2 : y^2 = x^3 + 3/(9+u)   over Fq2 = Fq[u]/(u^2+1)                   *)
(*        (52 points, the subgroup of order 13, cofactor 4)                *)
(* Byte widths (32-byte field elements, 64-byte G1, 128-byte G2) are the   *)
(* program's own.  The pairing is computed on discrete logarithms, which   *)
(* is bilinear and non-degenerate on these cyclic groups.                  *)
(***************************************************************************)
EXTENDS Integers, Sequences, FiniteSets, TLC

VARIABLES
    \* ---- Groth16 pipeline (groth16.rs) ----
    pc,             \* position in the pipeline
    debug_build,    \* TRUE iff the crate is compiled with debug assertions
    r1cs,           \* the AcirR1cs handed to setup and prove
    witness,        \* the WitnessMap handed to prove
    setupResult,    \* Result<SetupResult, ArkworksError> of setup
    proofResult,    \* Result<ProofResult, ArkworksError> of prove
    verifyArgs,     \* the (proof, public inputs) handed to verify
    verifyResult,   \* Result<bool, ArkworksError> of verify
    gnarkBytes,     \* bytes produced by proof_to_gnark / verifying_key_to_gnark
    gnarkDecoded,   \* result of proof_from_gnark / verifying_key_from_gnark
    \* ---- point and field codec (gnark_compat.rs) ----
    cpc,            \* position in the codec round trip
    cval,           \* the values being encoded
    cbytes,         \* their encodings
    cdec,           \* the decoded values
    \* ---- ACIR to R1CS converter (acir_to_r1cs.rs) ----
    xpc,            \* position in the conversion
    expr,           \* the Expression of an AssertZero opcode
    exprResult,     \* Result<Vec<R1csConstraint>, ArkworksError> of expression_to_r1cs
    apc,            \* position in the conversion of a program
    program,        \* the AcirProgram handed to acir_to_r1cs
    r1csResult,     \* Result<AcirR1cs, ArkworksError> of acir_to_r1cs
    fpc,            \* position in the parsing of a field element
    fstr,           \* the string handed to parse_field_element
    fparsed,        \* Result<Fr, ArkworksError> of parse_field_element
    \* ---- on-chain verifier (solana-contracts, verifier.rs) ----
    vpc,            \* position in the on-chain verification
    vkAccount,      \* the stored VerifyingKeyAccount
    chainProof,     \* the Groth16Proof handed to verify_groth16
    chainInputs,    \* the public inputs handed to verify_groth16
    verifyRun,      \* what verify_groth16 did: host calls, prepared inputs, result
    ipc,            \* position in the verify_proof instruction
    ixProof,        \* the proof bytes handed to the instruction
    ixResult,       \* Result<()> of the instruction
    npc,            \* position in the negation of a G2 point
    g2Input,        \* the 128 bytes handed to negate_g2
    g2Negated,      \* Result<[u8; 128], VerifierError> of negate_g2, once and twice
    \* ---- constraint synthesis (acir_to_r1cs.rs) ----
    spc,            \* position in the synthesis
    synthSelf,      \* the AcirCircuitSynthesizer
    synthResult,    \* the variables map and the constraint system built
    \* ---- WASM entry points (lib.rs) ----
    wpc,            \* position in the building of the witness map
    witnessJson,    \* the parsed witness JSON, in iteration order
    witnessBuilt    \* the WitnessMap handed to groth16::prove, or the error

pipeVars == <<pc, debug_build, r1cs, witness, setupResult, proofResult,
              verifyArgs, verifyResult, gnarkBytes, gnarkDecoded>>
codecVars == <<cpc, cval, cbytes, cdec>>
convVars == <<xpc, expr, exprResult>>
circVars == <<apc, program, r1csResult>>
parseVars == <<fpc, fstr, fparsed>>
chainVars == <<vpc, vkAccount, chainProof, chainInputs, verifyRun>>
ixVars == <<ipc, ixProof, ixResult>>
negVars == <<npc, g2Input, g2Negated>>
synthVars == <<spc, synthSelf, synthResult>>
jsonVars == <<wpc, witnessJson, witnessBuilt>>
lateVars == <<ixVars, negVars, synthVars, jsonVars>>
moreVars == <<circVars, parseVars, chainVars, lateVars>>
vars == <<pipeVars, codecVars, convVars, moreVars>>

----------------------------------------------------------------------------
(* Result<T, ArkworksError>, and a panic (process abort / wasm trap).      *)

Ok(v) == [tag |-> "Ok", val |-> v]
Err(kind) == [tag |-> "Err", kind |-> kind]
MissingWitness(idx) == [tag |-> "Err", kind |-> "MissingWitness", index |-> idx]
Panic == [tag |-> "Panic"]
None == [tag |-> "None"]

IsOk(res) == res.tag = "Ok"
IsErr(res, kind) == res.tag = "Err" /\ res.kind = kind

(* `res?` followed by F on the unwrapped value: anything but Ok is handed   *)
(* on as it is.                                                            *)
AndThen(res, F(_)) == IF IsOk(res) THEN F(res.val) ELSE res

(* .map_err(|e| ArkworksError::X(e.to_string())): a panic is not an Err. *)
MapErr(res, kind) == IF res.tag = "Err" THEN Err(kind) ELSE res

(* A function on 1..n as a sequence (Vec<T>, [T; n]). *)
Vec(f) == f \o <<>>

----------------------------------------------------------------------------
(* The fields Fq (base) and Fr (scalar), and Fq2 = Fq[u]/(u^2 + 1).        *)

Q == 7
R == 13

Fq == 0 .. (Q - 1)
Fr == 0 .. (R - 1)

FqAdd(a, b) == (a + b) % Q
FqSub(a, b) == (a - b + Q) % Q
FqMul(a, b) == (a * b) % Q
FqNeg(a) == (Q - a) % Q
FqInv(a) == CHOOSE b \in Fq : (a * b) % Q = 1

FrAdd(a, b) == (a + b) % R
FrSub(a, b) == (a - b + R) % R
FrMul(a, b) == (a * b) % R
FrNeg(a) == (R - a) % R
FrInv(a) == CHOOSE b \in Fr : (a * b) % R = 1

RECURSIVE FrPow(_, _)
FrPow(a, n) == IF n = 0 THEN 1 ELSE FrMul(a, FrPow(a, n - 1))

Fq2 == Fq \X Fq
Fq2Add(a, b) == <<FqAdd(a[1], b[1]), FqAdd(a[2], b[2])>>
Fq2Sub(a, b) == <<FqSub(a[1], b[1]), FqSub(a[2], b[2])>>
Fq2Mul(a, b) == <<FqSub(FqMul(a[1], b[1]), FqMul(a[2], b[2])),
                  FqAdd(FqMul(a[1], b[2]), FqMul(a[2], b[1]))>>
Fq2Neg(a) == <<FqNeg(a[1]), FqNeg(a[2])>>
Fq2Inv(a) ==
    LET n == FqInv(FqAdd(FqMul(a[1], a[1]), FqMul(a[2], a[2])))
    IN  <<FqMul(a[1], n), FqMul(FqNeg(a[2]), n)>>
Fq2Zero == <<0, 0>>

----------------------------------------------------------------------------
(* G1Affine and G2Affine: short Weierstrass points {x, y, infinity}.       *)

G1_B == 3
G2_B == Fq2Mul(<<3, 0>>, Fq2Inv(<<9 % Q, 1>>))

G1Zero == [infinity |-> TRUE, x |-> 0, y |-> 0]
G2Zero == [infinity |-> TRUE, x |-> Fq2Zero, y |-> Fq2Zero]

G1IsOnCurve(x, y) == FqMul(y, y) = FqAdd(FqMul(x, FqMul(x, x)), G1_B)
G2IsOnCurve(x, y) == Fq2Mul(y, y) = Fq2Add(Fq2Mul(x, Fq2Mul(x, x)), G2_B)

(* third point of the line of slope lam through p1 and p2, reflected *)
G1Third(p1, p2, lam) ==
    LET x3 == FqSub(FqSub(FqMul(lam, lam), p1.x), p2.x)
    IN  [infinity |-> FALSE, x |-> x3, y |-> FqSub(FqMul(lam, FqSub(p1.x, x3)), p1.y)]

G1Add(p1, p2) ==
    IF p1.infinity THEN p2
    ELSE IF p2.infinity THEN p1
    ELSE IF p1.x = p2.x /\ FqAdd(p1.y, p2.y) = 0 THEN G1Zero
    ELSE G1Third(p1, p2,
                 IF p1.x = p2.x
                 THEN FqMul(FqMul(3, FqMul(p1.x, p1.x)), FqInv(FqMul(2, p1.y)))
                 ELSE FqMul(FqSub(p2.y, p1.y), FqInv(FqSub(p2.x, p1.x))))

G2Third(p1, p2, lam) ==
    LET x3 == Fq2Sub(Fq2Sub(Fq2Mul(lam, lam), p1.x), p2.x)
    IN  [infinity |-> FALSE, x |-> x3, y |-> Fq2Sub(Fq2Mul(lam, Fq2Sub(p1.x, x3)), p1.y)]

G2Add(p1, p2) ==
    IF p1.infinity THEN p2
    ELSE IF p2.infinity THEN p1
    ELSE IF p1.x = p2.x /\ Fq2Add(p1.y, p2.y) = Fq2Zero THEN G2Zero
    ELSE G2Third(p1, p2,
                 IF p1.x = p2.x
                 THEN Fq2Mul(Fq2Mul(<<3, 0>>, Fq2Mul(p1.x, p1.x)),
                             Fq2Inv(Fq2Mul(<<2, 0>>, p1.y)))
                 ELSE Fq2Mul(Fq2Sub(p2.y, p1.y), Fq2Inv(Fq2Sub(p2.x, p1.x))))

RECURSIVE G1Mul(_, _)
G1Mul(k, p) == IF k = 0 THEN G1Zero ELSE G1Add(p, G1Mul(k - 1, p))

RECURSIVE G2Mul(_, _)
G2Mul(k, p) == IF k = 0 THEN G2Zero ELSE G2Add(p, G2Mul(k - 1, p))

G1Gen == [infinity |-> FALSE, x |-> 1, y |-> 2]
G2Gen == [infinity |-> FALSE, x |-> <<1, 2>>, y |-> <<3, 4>>]

(* k*G for every scalar k: the groups are cyclic of order R. *)
G1Table == [k \in Fr |-> G1Mul(k, G1Gen)]
G2Table == [k \in Fr |-> G2Mul(k, G2Gen)]
G1Points == {G1Table[k] : k \in Fr}
G2Points == {G2Table[k] : k \in Fr}
G1Of(k) == G1Table[k % R]
G2Of(k) == G2Table[k % R]
DLog1(p) == CHOOSE k \in Fr : G1Table[k] = p
DLog2(p) == CHOOSE k \in Fr : G2Table[k] = p

(* is_in_correct_subgroup_assuming_on_curve: multiplication by the group order. *)
G1InSubgroup(x, y) == G1Mul(R, [infinity |-> FALSE, x |-> x, y |-> y]).infinity
G2InSubgroup(x, y) == G2Mul(R, [infinity |-> FALSE, x |-> x, y |-> y]).infinity

(* Affine::new(x, y): asserts the point is on the curve and in the subgroup. *)
G1Affine_new(x, y) ==
    IF G1IsOnCurve(x, y) /\ G1InSubgroup(x, y)
    THEN Ok([infinity |-> FALSE, x |-> x, y |-> y])
    ELSE Panic

G2Affine_new(x, y) ==
    IF G2IsOnCurve(x, y) /\ G2InSubgroup(x, y)
    THEN Ok([infinity |-> FALSE, x |-> x, y |-> y])
    ELSE Panic

----------------------------------------------------------------------------
(* gnark_compat.rs: big-endian fixed-width encodings.                      *)

G1_SIZE == 64
G2_SIZE == 128
FIELD_SIZE == 32
PROOF_SIZE == 256

Byte == 0 .. 255

(* BigInteger::to_bytes_le: n little-endian bytes of v. *)
RECURSIVE to_bytes_le(_, _)
to_bytes_le(v, n) ==
    IF n = 0 THEN <<>> ELSE <<v % 256>> \o to_bytes_le(v \div 256, n - 1)

(* PrimeField::from_le_bytes_mod_order: the little-endian number, reduced. *)
RECURSIVE from_le_bytes_mod_order(_, _)
from_le_bytes_mod_order(le, p) ==
    IF Len(le) = 0 THEN 0
    ELSE (le[1] + 256 * from_le_bytes_mod_order(Tail(le), p)) % p

AllZero(bytes) == \A i \in 1 .. Len(bytes) : bytes[i] = 0

Slice(bytes, from, to) == SubSeq(bytes, from + 1, to)

fq_to_be_bytes(fq) ==
    LET le_bytes == to_bytes_le(fq, FIELD_SIZE)
    IN  Vec([k \in 1 .. FIELD_SIZE |-> le_bytes[FIELD_SIZE - k + 1]])

(* Variant: the little-endian bytes, not reversed. *)
fr_to_be_bytes_unreversed(fr) == to_bytes_le(fr, FIELD_SIZE)

fr_to_be_bytes(fr) ==
    LET le_bytes == to_bytes_le(fr, FIELD_SIZE)
    IN  Vec([k \in 1 .. FIELD_SIZE |-> le_bytes[FIELD_SIZE - k + 1]])

fq_from_be_bytes(bytes) ==
    IF Len(bytes) # FIELD_SIZE THEN Err("ParseError")
    ELSE LET le_bytes == Vec([k \in 1 .. FIELD_SIZE |-> bytes[FIELD_SIZE - k + 1]])
         IN  Ok(from_le_bytes_mod_order(le_bytes, Q))

fr_from_be_bytes(bytes) ==
    IF Len(bytes) # FIELD_SIZE THEN Err("ParseError")
    ELSE LET le_bytes == Vec([k \in 1 .. FIELD_SIZE |-> bytes[FIELD_SIZE - k + 1]])
         IN  Ok(from_le_bytes_mod_order(le_bytes, R))

g1_to_gnark(point) ==
    IF point.infinity THEN Vec([k \in 1 .. G1_SIZE |-> 0])
    ELSE fq_to_be_bytes(point.x) \o fq_to_be_bytes(point.y)

g1_from_gnark(bytes) ==
    IF AllZero(bytes) THEN Ok(G1Zero)
    ELSE AndThen(fq_from_be_bytes(Slice(bytes, 0, 32)), LAMBDA x :
         AndThen(fq_from_be_bytes(Slice(bytes, 32, G1_SIZE)), LAMBDA y :
         G1Affine_new(x, y)))

g2_to_gnark(point) ==
    IF point.infinity THEN Vec([k \in 1 .. G2_SIZE |-> 0])
    ELSE fq_to_be_bytes(point.x[1]) \o fq_to_be_bytes(point.x[2])
         \o fq_to_be_bytes(point.y[1]) \o fq_to_be_bytes(point.y[2])

g2_from_gnark(bytes) ==
    IF AllZero(bytes) THEN Ok(G2Zero)
    ELSE AndThen(fq_from_be_bytes(Slice(bytes, 0, 32)), LAMBDA x_c0 :
         AndThen(fq_from_be_bytes(Slice(bytes, 32, 64)), LAMBDA x_c1 :
         AndThen(fq_from_be_bytes(Slice(bytes, 64, 96)), LAMBDA y_c0 :
         AndThen(fq_from_be_bytes(Slice(bytes, 96, G2_SIZE)), LAMBDA y_c1 :
         G2Affine_new(<<x_c0, x_c1>>, <<y_c0, y_c1>>)))))

----------------------------------------------------------------------------
(* acir_to_r1cs.rs: AcirCircuitSynthesizer over an ark_relations           *)
(* ConstraintSystem.                                                       *)

Some(v) == [tag |-> "Some", val |-> v]

VarOne == [kind |-> "One", index |-> 0]
VarInstance(i) == [kind |-> "Instance", index |-> i]
VarWitness(i) == [kind |-> "Witness", index |-> i]

(* ConstraintSystem::new(): instance column 0 holds the constant one. *)
NewCS(setup_mode) ==
    [setup_mode |-> setup_mode,
     num_instance_variables |-> 1,
     num_witness_variables |-> 0,
     instance_assignment |-> <<1>>,
     witness_assignment |-> <<>>,
     constraints |-> <<>>]

MapInsert(m, k, v) == [i \in (DOMAIN m) \cup {k} |-> IF i = k THEN v ELSE m[i]]

(* self.witness.as_ref().and_then(|w| w.get(&idx).copied()) *)
WitnessGet(wopt, idx) ==
    IF wopt.tag = "Some" /\ idx \in DOMAIN wopt.val THEN Some(wopt.val[idx]) ELSE None

(* cs.new_input_variable(|| value.ok_or(AssignmentMissing)): the closure is *)
(* evaluated only outside setup mode.                                      *)
new_input_variable(cs, value) ==
    IF ~cs.setup_mode /\ value.tag = "None" THEN Err("AssignmentMissing")
    ELSE Ok([cs |-> [cs EXCEPT !.num_instance_variables = @ + 1,
                               !.instance_assignment =
                                   IF cs.setup_mode THEN @ ELSE Append(@, value.val)],
             var |-> VarInstance(cs.num_instance_variables)])

new_witness_variable(cs, value) ==
    IF ~cs.setup_mode /\ value.tag = "None" THEN Err("AssignmentMissing")
    ELSE Ok([cs |-> [cs EXCEPT !.num_witness_variables = @ + 1,
                               !.witness_assignment =
                                   IF cs.setup_mode THEN @ ELSE Append(@, value.val)],
             var |-> VarWitness(cs.num_witness_variables)])

(* for &idx in &self.r1cs.public_inputs { ... variables.insert(idx, var) } *)
RECURSIVE AllocPublic(_, _, _, _)
AllocPublic(st, publics, k, wopt) ==
    IF k > Len(publics) THEN Ok(st)
    ELSE AndThen(new_input_variable(st.cs, WitnessGet(wopt, publics[k])), LAMBDA got :
         AllocPublic([cs |-> got.cs,
                      variables |-> MapInsert(st.variables, publics[k], got.var)],
                     publics, k + 1, wopt))

(* for i in 1..num_witnesses { if variables.contains_key(&i) { continue } ... } *)
RECURSIVE AllocPrivate(_, _, _, _)
AllocPrivate(st, i, num_witnesses, wopt) ==
    IF i >= num_witnesses THEN Ok(st)
    ELSE IF i \in DOMAIN st.variables THEN AllocPrivate(st, i + 1, num_witnesses, wopt)
    ELSE AndThen(new_witness_variable(st.cs, WitnessGet(wopt, i)), LAMBDA got :
         AllocPrivate([cs |-> got.cs,
                       variables |-> MapInsert(st.variables, i, got.var)],
                      i + 1, num_witnesses, wopt))

(* Variant: a term whose index has no variable is put on the constant one. *)
RECURSIVE build_lc_unallocated_on_one(_, _)
build_lc_unallocated_on_one(terms, variables) ==
    IF Len(terms) = 0 THEN <<>>
    ELSE LET coeff == terms[Len(terms)][1]
             idx == terms[Len(terms)][2]
             lc == build_lc_unallocated_on_one(SubSeq(terms, 1, Len(terms) - 1), variables)
         IN  IF idx \in DOMAIN variables
             THEN Append(lc, <<coeff, variables[idx]>>)
             ELSE Append(lc, <<coeff, VarOne>>)

(* build_lc: a term whose index has no variable is skipped. *)
RECURSIVE build_lc(_, _)
build_lc(terms, variables) ==
    IF Len(terms) = 0 THEN <<>>
    ELSE LET coeff == terms[Len(terms)][1]
             idx == terms[Len(terms)][2]
             lc == build_lc(SubSeq(terms, 1, Len(terms) - 1), variables)
         IN  IF idx \in DOMAIN variables
             THEN Append(lc, <<coeff, variables[idx]>>)
             ELSE lc

(* for constraint in &self.r1cs.constraints { cs.enforce_constraint(a, b, c)? } *)
EnforceAll(cs, constraints, variables) ==
    [cs EXCEPT !.constraints =
        Vec([j \in 1 .. Len(constraints) |->
            [a |-> build_lc(constraints[j].a, variables),
             b |-> build_lc(constraints[j].b, variables),
             c |-> build_lc(constraints[j].c, variables)]])]

(* The variables map after allocation (Err if an assignment is missing). *)
AllocateVariables(self, cs) ==
    AndThen(AllocPublic([cs |-> cs, variables |-> (0 :> VarOne)],
                        self.r1cs.public_inputs, 1, self.witness), LAMBDA st :
    AllocPrivate(st, 1, self.r1cs.num_witnesses, self.witness))

generate_constraints(self, cs) ==
    AndThen(AllocateVariables(self, cs), LAMBDA st :
    Ok(EnforceAll(st.cs, self.r1cs.constraints, st.variables)))

AcirCircuitSynthesizer_new(r, w) == [r1cs |-> r, witness |-> w]

----------------------------------------------------------------------------
(* ark_groth16 as called by groth16.rs.  Polynomials are coefficient       *)
(* sequences over Fr, low degree first; the FFTs of the library are        *)
(* interpolation and evaluation over the radix-2 domain and its coset.     *)

FrGenerator == 2

RECURSIVE NextPow2From(_, _)
NextPow2From(m, n) == IF m >= n THEN m ELSE NextPow2From(2 * m, n)

(* Radix2EvaluationDomain::new(n): None when Fr has no subgroup that large. *)
DomainSize(n) == NextPow2From(1, n)
DomainExists(n) == (R - 1) % DomainSize(n) = 0
DomainElements(m) ==
    LET omega == FrPow(FrGenerator, (R - 1) \div m)
    IN  Vec([k \in 1 .. m |-> FrPow(omega, k - 1)])
CosetElements(m) ==
    LET xs == DomainElements(m)
    IN  Vec([k \in 1 .. m |-> FrMul(FrGenerator, xs[k])])

RECURSIVE PolyEvalFrom(_, _, _)
PolyEvalFrom(poly, x, i) ==
    IF i > Len(poly) THEN 0
    ELSE FrAdd(poly[i], FrMul(x, PolyEvalFrom(poly, x, i + 1)))
PolyEval(poly, x) == PolyEvalFrom(poly, x, 1)

PolyAdd(f, g) == Vec([i \in 1 .. Len(f) |-> FrAdd(f[i], g[i])])
PolyScale(c, f) == Vec([i \in 1 .. Len(f) |-> FrMul(c, f[i])])
(* f * (x - root), truncated to Len(f) coefficients *)
PolyMulLinear(f, root) ==
    Vec([i \in 1 .. Len(f) |->
        FrSub(IF i = 1 THEN 0 ELSE f[i - 1], FrMul(root, f[i]))])

RECURSIVE BasisNumerator(_, _, _)
BasisNumerator(xs, k, j) ==
    IF j = 0 THEN Vec([i \in 1 .. Len(xs) |-> IF i = 1 THEN 1 ELSE 0])
    ELSE IF j = k THEN BasisNumerator(xs, k, j - 1)
    ELSE PolyMulLinear(BasisNumerator(xs, k, j - 1), xs[j])

RECURSIVE BasisDenominator(_, _, _)
BasisDenominator(xs, k, j) ==
    IF j = 0 THEN 1
    ELSE IF j = k THEN BasisDenominator(xs, k, j - 1)
    ELSE FrMul(FrSub(xs[k], xs[j]), BasisDenominator(xs, k, j - 1))

RECURSIVE InterpolateFrom(_, _, _)
InterpolateFrom(xs, ys, k) ==
    IF k > Len(xs) THEN Vec([i \in 1 .. Len(xs) |-> 0])
    ELSE PolyAdd(PolyScale(FrMul(ys[k], FrInv(BasisDenominator(xs, k, Len(xs)))),
                           BasisNumerator(xs, k, Len(xs))),
                 InterpolateFrom(xs, ys, k + 1))
(* ifft: the polynomial of degree < Len(xs) taking the values ys on xs *)
Interpolate(xs, ys) == InterpolateFrom(xs, ys, 1)

(* Column of a variable in the constraint matrices: instance, then witness. *)
Column(cs, var) ==
    IF var.kind = "Witness" THEN cs.num_instance_variables + var.index ELSE var.index

RECURSIVE LcCoeffFrom(_, _, _, _)
LcCoeffFrom(cs, lc, col, i) ==
    IF i > Len(lc) THEN 0
    ELSE FrAdd(IF Column(cs, lc[i][2]) = col THEN lc[i][1] ELSE 0,
               LcCoeffFrom(cs, lc, col, i + 1))
LcCoeff(cs, lc, col) == LcCoeffFrom(cs, lc, col, 1)

FullAssignment(cs) == cs.instance_assignment \o cs.witness_assignment

RECURSIVE LcEvalFrom(_, _, _)
LcEvalFrom(cs, lc, i) ==
    IF i > Len(lc) THEN 0
    ELSE FrAdd(FrMul(lc[i][1], FullAssignment(cs)[Column(cs, lc[i][2]) + 1]),
               LcEvalFrom(cs, lc, i + 1))
(* evaluate_constraint: the linear combination under the full assignment *)
LcEval(cs, lc) == LcEvalFrom(cs, lc, 1)

(* ConstraintSystem::is_satisfied *)
is_satisfied(cs) ==
    \A j \in 1 .. Len(cs.constraints) :
        FrMul(LcEval(cs, cs.constraints[j].a), LcEval(cs, cs.constraints[j].b))
            = LcEval(cs, cs.constraints[j].c)

NumVariables(cs) == cs.num_instance_variables + cs.num_witness_variables
NumConstraints(cs) == Len(cs.constraints)
QapDomainSize(cs) == DomainSize(NumConstraints(cs) + cs.num_instance_variables)

(* LibsnarkReduction::instance_map_with_evaluation: the QAP polynomials of  *)
(* column col evaluated at t.  Row NumConstraints + i carries instance      *)
(* variable i in A.                                                        *)
QapAt(cs, which, col, t) ==
    LET m == QapDomainSize(cs)
        nc == NumConstraints(cs)
        evals == Vec([j \in 1 .. m |->
                    IF j <= nc
                    THEN LcCoeff(cs, IF which = "a" THEN cs.constraints[j].a
                                     ELSE IF which = "b" THEN cs.constraints[j].b
                                     ELSE cs.constraints[j].c, col)
                    ELSE IF which = "a" /\ col < cs.num_instance_variables
                            /\ j = nc + col + 1
                    THEN 1 ELSE 0])
    IN  PolyEval(Interpolate(DomainElements(m), evals), t)

(* LibsnarkReduction::witness_map: coefficients of h = (a*b - c)/Z, computed *)
(* on the coset of the domain.                                             *)
witness_map(cs) ==
    LET m == QapDomainSize(cs)
        nc == NumConstraints(cs)
        xs == DomainElements(m)
        cos == CosetElements(m)
        a == Interpolate(xs, Vec([j \in 1 .. m |->
                 IF j <= nc THEN LcEval(cs, cs.constraints[j].a)
                 ELSE IF j <= nc + cs.num_instance_variables
                 THEN cs.instance_assignment[j - nc] ELSE 0]))
        b == Interpolate(xs, Vec([j \in 1 .. m |->
                 IF j <= nc THEN LcEval(cs, cs.constraints[j].b) ELSE 0]))
        c == Interpolate(xs, Vec([j \in 1 .. m |->
                 IF j <= nc THEN LcEval(cs, cs.constraints[j].c) ELSE 0]))
        zinv == FrInv(FrSub(FrPow(FrGenerator, m), 1))
        ab == Vec([k \in 1 .. m |->
                 FrMul(FrSub(FrMul(PolyEval(a, cos[k]), PolyEval(b, cos[k])),
                             PolyEval(c, cos[k])), zinv)])
    IN  Interpolate(cos, ab)

(* Pairing of the cyclic groups, through discrete logarithms; the target   *)
(* group is written additively.                                            *)
Pairing(p, q) == FrMul(DLog1(p), DLog2(q))

G1Neg(p) == IF p.infinity THEN p ELSE [p EXCEPT !.y = FqNeg(@)]
G2Neg(p) == IF p.infinity THEN p ELSE [p EXCEPT !.y = Fq2Neg(@)]
G1Scale(p, k) == G1Of(k * DLog1(p))
G2Scale(p, k) == G2Of(k * DLog2(p))

(* Groth16::circuit_specific_setup(circuit, rng): rng supplies alpha, beta, *)
(* gamma, delta (non-zero) and tau (outside the domain).  The proving key   *)
(* is kept as discrete logarithms; the verifying key holds curve points.    *)
generate_parameters(cs, rng) ==
    LET n == NumConstraints(cs) + cs.num_instance_variables
    IN  IF ~DomainExists(n) THEN Err("PolynomialDegreeTooLarge")
        ELSE
                 LET m == DomainSize(n)
                     t == rng.tau
                     zt == FrSub(FrPow(t, m), 1)
                     a == Vec([i \in 1 .. NumVariables(cs) |-> QapAt(cs, "a", i - 1, t)])
                     b == Vec([i \in 1 .. NumVariables(cs) |-> QapAt(cs, "b", i - 1, t)])
                     c == Vec([i \in 1 .. NumVariables(cs) |-> QapAt(cs, "c", i - 1, t)])
                     abc == Vec([i \in 1 .. NumVariables(cs) |->
                                FrAdd(FrAdd(FrMul(rng.beta, a[i]), FrMul(rng.alpha, b[i])),
                                      c[i])])
                     gamma_inverse == FrInv(rng.gamma)
                     delta_inverse == FrInv(rng.delta)
                     vk == [alpha_g1 |-> G1Of(rng.alpha),
                            beta_g2 |-> G2Of(rng.beta),
                            gamma_g2 |-> G2Of(rng.gamma),
                            delta_g2 |-> G2Of(rng.delta),
                            gamma_abc_g1 |->
                                Vec([i \in 1 .. cs.num_instance_variables |->
                                    G1Of(FrMul(abc[i], gamma_inverse))])]
                     pk == [vk |-> vk,
                            alpha |-> rng.alpha,
                            beta |-> rng.beta,
                            delta |-> rng.delta,
                            a_query |-> a,
                            b_query |-> b,
                            h_query |-> Vec([i \in 1 .. (m - 1) |->
                                FrMul(FrMul(zt, delta_inverse), FrPow(t, i - 1))]),
                            l_query |-> Vec([i \in 1 .. cs.num_witness_variables |->
                                FrMul(abc[cs.num_instance_variables + i], delta_inverse)])]
                 IN  Ok([pk |-> pk, vk |-> pk.vk])

Groth16_circuit_specific_setup(circuit, rng) ==
    AndThen(generate_constraints(circuit, NewCS(TRUE)), LAMBDA cs :
    generate_parameters(cs, rng))

RECURSIVE DotFrom(_, _, _)
DotFrom(xs, ys, i) ==
    IF i > Len(xs) \/ i > Len(ys) THEN 0
    ELSE FrAdd(FrMul(xs[i], ys[i]), DotFrom(xs, ys, i + 1))
(* multi-scalar multiplication, on discrete logarithms *)
Msm(bases, scalars) == DotFrom(bases, scalars, 1)

(* Groth16::prove(pk, circuit, rng) = create_proof_with_reduction: the      *)
(* satisfaction check is a debug_assert!, so it aborts a debug build and is *)
(* absent from a release build.                                            *)
create_proof(pk, cs, rng, debug) ==
    IF debug /\ ~is_satisfied(cs) THEN Panic
    ELSE
                 LET h == witness_map(cs)
                     full == FullAssignment(cs)
                     aux == cs.witness_assignment
                     h_acc == Msm(pk.h_query, h)
                     l_aux_acc == Msm(pk.l_query, aux)
                     g_a == FrAdd(FrAdd(pk.alpha, Msm(pk.a_query, full)),
                                  FrMul(rng.r, pk.delta))
                     g_b == FrAdd(FrAdd(pk.beta, Msm(pk.b_query, full)),
                                  FrMul(rng.s, pk.delta))
                     g1_b == IF rng.r = 0 THEN 0 ELSE g_b
                     g_c == FrAdd(FrAdd(FrSub(FrAdd(FrMul(rng.s, g_a), FrMul(rng.r, g1_b)),
                                              FrMul(FrMul(rng.r, rng.s), pk.delta)),
                                        l_aux_acc), h_acc)
                 IN  Ok([a |-> G1Of(g_a), b |-> G2Of(g_b), c |-> G1Of(g_c)])

Groth16_prove(pk, circuit, rng, debug) ==
    AndThen(generate_constraints(circuit, NewCS(FALSE)), LAMBDA cs :
    create_proof(pk, cs, rng, debug))

(* prepare_verifying_key + Groth16::verify_with_processed_vk *)
prepare_inputs(vk, public_inputs) ==
    IF Len(public_inputs) + 1 # Len(vk.gamma_abc_g1) THEN Err("MalformedVerifyingKey")
    ELSE LET RECURSIVE Acc(_)
             Acc(i) == IF i = 0 THEN vk.gamma_abc_g1[1]
                       ELSE G1Add(Acc(i - 1), G1Scale(vk.gamma_abc_g1[i + 1], public_inputs[i]))
         IN  Ok(Acc(Len(public_inputs)))

Groth16_verify_with_processed_vk(vk, public_inputs, proof) ==
    AndThen(prepare_inputs(vk, public_inputs), LAMBDA prepared :
    Ok(FrAdd(FrAdd(Pairing(proof.a, proof.b),
                   Pairing(prepared, G2Neg(vk.gamma_g2))),
             Pairing(proof.c, G2Neg(vk.delta_g2)))
       = Pairing(vk.alpha_g1, vk.beta_g2)))

----------------------------------------------------------------------------
(* gnark_compat.rs: proofs and verifying keys.                             *)

(* Variant: C first, A last. *)
proof_to_gnark_cba(proof) ==
    Ok(g1_to_gnark(proof.c) \o g2_to_gnark(proof.b) \o g1_to_gnark(proof.a))

proof_to_gnark(proof) ==
    Ok(g1_to_gnark(proof.a) \o g2_to_gnark(proof.b) \o g1_to_gnark(proof.c))

(* Variant: only too-short input is refused. *)
proof_from_gnark_min_length(bytes) ==
    IF Len(bytes) < PROOF_SIZE THEN Err("ParseError")
    ELSE AndThen(g1_from_gnark(Slice(bytes, 0, G1_SIZE)), LAMBDA a :
         AndThen(g2_from_gnark(Slice(bytes, G1_SIZE, G1_SIZE + G2_SIZE)), LAMBDA b :
         AndThen(g1_from_gnark(Slice(bytes, G1_SIZE + G2_SIZE, PROOF_SIZE)), LAMBDA c :
         Ok([a |-> a, b |-> b, c |-> c]))))

proof_from_gnark(bytes) ==
    IF Len(bytes) # PROOF_SIZE THEN Err("ParseError")
    ELSE AndThen(g1_from_gnark(Slice(bytes, 0, G1_SIZE)), LAMBDA a :
         AndThen(g2_from_gnark(Slice(bytes, G1_SIZE, G1_SIZE + G2_SIZE)), LAMBDA b :
         AndThen(g1_from_gnark(Slice(bytes, G1_SIZE + G2_SIZE, Len(bytes))), LAMBDA c :
         Ok([a |-> a, b |-> b, c |-> c]))))

RECURSIVE ConcatG1(_, _)
ConcatG1(points, i) ==
    IF i > Len(points) THEN <<>>
    ELSE g1_to_gnark(points[i]) \o ConcatG1(points, i + 1)

(* Variant: delta written before gamma. *)
verifying_key_to_gnark_delta_first(vk) ==
    Ok(g1_to_gnark(vk.alpha_g1) \o g2_to_gnark(vk.beta_g2)
       \o g2_to_gnark(vk.delta_g2) \o g2_to_gnark(vk.gamma_g2)
       \o ConcatG1(vk.gamma_abc_g1, 1))

verifying_key_to_gnark(vk) ==
    Ok(g1_to_gnark(vk.alpha_g1) \o g2_to_gnark(vk.beta_g2)
       \o g2_to_gnark(vk.gamma_g2) \o g2_to_gnark(vk.delta_g2)
       \o ConcatG1(vk.gamma_abc_g1, 1))

(* for _ in 0..=num_public_inputs { gamma_abc_g1.push(g1_from_gnark(..)?) } *)
RECURSIVE DecodeGammaAbc(_, _, _)
DecodeGammaAbc(bytes, offset, remaining) ==
    IF remaining = 0 THEN Ok(<<>>)
    ELSE AndThen(g1_from_gnark(Slice(bytes, offset, offset + G1_SIZE)), LAMBDA point :
         AndThen(DecodeGammaAbc(bytes, offset + G1_SIZE, remaining - 1), LAMBDA rest :
         Ok(<<point>> \o rest)))

verifying_key_from_gnark(bytes, num_public_inputs) ==
    LET expected_size == G1_SIZE + G2_SIZE * 3 + G1_SIZE * (num_public_inputs + 1)
    IN  IF Len(bytes) # expected_size THEN Err("ParseError")
        ELSE
        AndThen(g1_from_gnark(Slice(bytes, 0, G1_SIZE)), LAMBDA alpha_g1 :
        AndThen(g2_from_gnark(Slice(bytes, G1_SIZE, G1_SIZE + G2_SIZE)), LAMBDA beta_g2 :
        AndThen(g2_from_gnark(Slice(bytes, G1_SIZE + G2_SIZE, G1_SIZE + 2 * G2_SIZE)),
                LAMBDA gamma_g2 :
        AndThen(g2_from_gnark(Slice(bytes, G1_SIZE + 2 * G2_SIZE, G1_SIZE + 3 * G2_SIZE)),
                LAMBDA delta_g2 :
        AndThen(DecodeGammaAbc(bytes, G1_SIZE + 3 * G2_SIZE, num_public_inputs + 1),
                LAMBDA gamma_abc_g1 :
        Ok([alpha_g1 |-> alpha_g1,
            beta_g2 |-> beta_g2,
            gamma_g2 |-> gamma_g2,
            delta_g2 |-> delta_g2,
            gamma_abc_g1 |-> gamma_abc_g1]))))))

----------------------------------------------------------------------------
(* groth16.rs: setup, prove, verify.                                       *)

setup(r, rng) ==
    AndThen(MapErr(Groth16_circuit_specific_setup(AcirCircuitSynthesizer_new(r, None), rng),
                   "SynthesisError"), LAMBDA keys :
    Ok([proving_key |-> keys.pk, verifying_key |-> keys.vk]))

(* Variant: an index already seen is not reported again. *)
RECURSIVE ExtractPublicInputs_dedup(_, _, _)
ExtractPublicInputs_dedup(public_inputs, w, i) ==
    IF i > Len(public_inputs) THEN Ok(<<>>)
    ELSE IF public_inputs[i] \notin DOMAIN w THEN MissingWitness(public_inputs[i])
    ELSE AndThen(ExtractPublicInputs_dedup(public_inputs, w, i + 1), LAMBDA rest :
         IF \E j \in 1 .. (i - 1) : public_inputs[j] = public_inputs[i]
         THEN Ok(rest)
         ELSE Ok(<<w[public_inputs[i]]>> \o rest))

(* r1cs.public_inputs.iter().map(|&idx| witness.get(&idx).copied()          *)
(*     .ok_or(MissingWitness(idx))).collect::<Result<Vec<_>, _>>()          *)
RECURSIVE ExtractPublicInputs(_, _, _)
ExtractPublicInputs(public_inputs, w, i) ==
    IF i > Len(public_inputs) THEN Ok(<<>>)
    ELSE IF public_inputs[i] \notin DOMAIN w THEN MissingWitness(public_inputs[i])
    ELSE AndThen(ExtractPublicInputs(public_inputs, w, i + 1), LAMBDA rest :
         Ok(<<w[public_inputs[i]]>> \o rest))

prove(proving_key, r, w, rng, debug) ==
    AndThen(MapErr(Groth16_prove(proving_key, AcirCircuitSynthesizer_new(r, Some(w)),
                                 rng, debug), "ProofError"), LAMBDA proof :
    AndThen(ExtractPublicInputs(r.public_inputs, w, 1), LAMBDA public_inputs :
    Ok([proof |-> proof, public_inputs |-> public_inputs])))

(* Variant: a verification error is reported as "proof invalid". *)
verify_conflated(verifying_key, proof, public_inputs) ==
    Ok(Groth16_verify_with_processed_vk(verifying_key, public_inputs, proof) = Ok(TRUE))

verify(verifying_key, proof, public_inputs) ==
    MapErr(Groth16_verify_with_processed_vk(verifying_key, public_inputs, proof),
           "VerificationError")

----------------------------------------------------------------------------
(* The pipeline as a state machine: setup -> prove -> verify, with the      *)
(* gnark round trips of the verifying key and of the proof.                 *)

PipeIdle ==
    /\ pc = "idle"
    /\ debug_build = FALSE
    /\ r1cs = None
    /\ witness = None
    /\ setupResult = None
    /\ proofResult = None
    /\ verifyArgs = None
    /\ verifyResult = None
    /\ gnarkBytes = None
    /\ gnarkDecoded = None

CodecIdle ==
    /\ cpc = "idle"
    /\ cval = None
    /\ cbytes = None
    /\ cdec = None

CircIdle ==
    /\ apc = "idle"
    /\ program = None
    /\ r1csResult = None

ParseIdle ==
    /\ fpc = "idle"
    /\ fstr = <<>>
    /\ fparsed = None

ChainIdle ==
    /\ vpc = "idle"
    /\ vkAccount = None
    /\ chainProof = None
    /\ chainInputs = <<>>
    /\ verifyRun = None

IxIdle ==
    /\ ipc = "idle"
    /\ ixProof = <<>>
    /\ ixResult = None

NegIdle ==
    /\ npc = "idle"
    /\ g2Input = <<>>
    /\ g2Negated = None

SynthIdle ==
    /\ spc = "idle"
    /\ synthSelf = None
    /\ synthResult = None

JsonIdle ==
    /\ wpc = "idle"
    /\ witnessJson = <<>>
    /\ witnessBuilt = None

LateIdle == IxIdle /\ NegIdle /\ SynthIdle /\ JsonIdle

MoreIdle == CircIdle /\ ParseIdle /\ ChainIdle /\ LateIdle

ConvIdle ==
    /\ xpc = "idle"
    /\ expr = None
    /\ exprResult = None

MaxPublic == 2
MaxConstraints == 2
TestNumWitnesses == 4

SeqsUpTo(S, n) == UNION {[1 .. k -> S] : k \in 0 .. n}

(* w1 * w2 = w3, the circuit of create_test_r1cs *)
K_mul == [a |-> <<<<1, 1>>>>, b |-> <<<<1, 2>>>>, c |-> <<<<1, 3>>>>]
(* (w1 + w2 + 5) * 1 = w3 *)
K_lin == [a |-> <<<<1, 1>>, <<1, 2>>, <<5, 0>>>>, b |-> <<<<1, 0>>>>, c |-> <<<<1, 3>>>>]
(* w1 * w2 = w3 + w4, where index 4 is not below num_witnesses *)
K_ext == [a |-> <<<<1, 1>>>>, b |-> <<<<1, 2>>>>, c |-> <<<<1, 3>>, <<1, 4>>>>]

ConstraintPool == {K_mul, K_lin, K_ext}
PublicIndexPool == {0, 3, 4}

R1csInputs ==
    {[num_witnesses |-> TestNumWitnesses,
      public_inputs |-> pub,
      private_inputs |-> <<1, 2>>,
      return_values |-> pub,
      constraints |-> cons] :
        pub \in SeqsUpTo(PublicIndexPool, MaxPublic),
        cons \in (SeqsUpTo(ConstraintPool, MaxConstraints) \ {<<>>})}

(* The scaled field has radix-2 domains of at most this size. *)
FitsDomain(r) == DomainExists(Len(r.constraints) + Len(r.public_inputs) + 1)

(* Witness maps: w0 = 1, x = 3, y = 4, z in {12, 11}, w4 in {0, 1}, with at *)
(* most one index absent.                                                  *)
WitnessInputs ==
    {[i \in (0 .. 4) \ missing |->
        CASE i = 0 -> 1 [] i = 1 -> 3 [] i = 2 -> 4 [] i = 3 -> z [] OTHER -> e] :
        z \in {12, 11}, e \in {0, 1}, missing \in {{}, {0}, {1}, {3}, {4}}}

SetupRngs == {[alpha |-> 2, beta |-> 3, gamma |-> 4, delta |-> 5, tau |-> 6],
              [alpha |-> 7, beta |-> 11, gamma |-> 2, delta |-> 9, tau |-> 3]}
ProveRngs == {[r |-> 2, s |-> 5], [r |-> 0, s |-> 7]}

Init ==
    /\ CodecIdle
    /\ ConvIdle
    /\ MoreIdle
    /\ pc = "start"
    /\ debug_build \in BOOLEAN
    /\ r1cs \in {r \in R1csInputs : FitsDomain(r)}
    /\ witness \in WitnessInputs
    /\ setupResult = None
    /\ proofResult = None
    /\ verifyArgs = None
    /\ verifyResult = None
    /\ gnarkBytes = None
    /\ gnarkDecoded = None

Setup ==
    /\ pc = "start"
    /\ \E rng \in SetupRngs : setupResult' = setup(r1cs, rng)
    /\ pc' = IF IsOk(setupResult') THEN "keys" ELSE "done"
    /\ UNCHANGED <<debug_build, r1cs, witness, proofResult, verifyArgs, verifyResult,
                   gnarkBytes, gnarkDecoded, codecVars, convVars, moreVars>>

Prove ==
    /\ pc = "keys"
    /\ \E rng \in ProveRngs :
          proofResult' = prove(setupResult.val.proving_key, r1cs, witness, rng, debug_build)
    /\ pc' = IF IsOk(proofResult') THEN "proved" ELSE "done"
    /\ UNCHANGED <<debug_build, r1cs, witness, setupResult, verifyArgs, verifyResult,
                   gnarkBytes, gnarkDecoded, codecVars, convVars, moreVars>>

(* verify with the returned proof and public inputs *)
Verify ==
    /\ pc = "proved"
    /\ verifyArgs' = [proof |-> proofResult.val.proof,
                      public_inputs |-> proofResult.val.public_inputs]
    /\ verifyResult' = verify(setupResult.val.verifying_key, verifyArgs'.proof,
                              verifyArgs'.public_inputs)
    /\ pc' = "verified"
    /\ UNCHANGED <<debug_build, r1cs, witness, setupResult, proofResult,
                   gnarkBytes, gnarkDecoded, codecVars, convVars, moreVars>>

(* Proofs and input vectors a caller may hand to verify instead. *)
OtherProofs(proof) ==
    {[proof EXCEPT !.c = G1Add(@, G1Gen)],
     [proof EXCEPT !.a = G1Zero],
     [proof EXCEPT !.b = G2Add(@, G2Gen)]}
OtherInputs(inputs) ==
    {Append(inputs, 1)}
    \cup (IF Len(inputs) = 0 THEN {}
          ELSE {SubSeq(inputs, 1, Len(inputs) - 1),
                [inputs EXCEPT ![1] = FrAdd(@, 1)]})

VerifyOther ==
    /\ pc = "proved"
    /\ \E args \in
          {[proof |-> p, public_inputs |-> proofResult.val.public_inputs] :
              p \in OtherProofs(proofResult.val.proof)}
          \cup {[proof |-> proofResult.val.proof, public_inputs |-> i] :
              i \in OtherInputs(proofResult.val.public_inputs)} :
          /\ verifyArgs' = args
          /\ verifyResult' = verify(setupResult.val.verifying_key, args.proof,
                                    args.public_inputs)
    /\ pc' = "verified_other"
    /\ UNCHANGED <<debug_build, r1cs, witness, setupResult, proofResult,
                   gnarkBytes, gnarkDecoded, codecVars, convVars, moreVars>>

(* Byte strings a caller may hand to a decoder: the encoding itself, cut    *)
(* by a byte or by a point, extended by a byte or by a point, and some of   *)
(* these with the last byte of the first point changed (no longer a curve   *)
(* point).                                                                 *)
Corrupt(bytes) ==
    IF Len(bytes) < G1_SIZE THEN bytes
    ELSE [bytes EXCEPT ![G1_SIZE] = (@ + 1) % 256]
ByteVariants(bytes) ==
    {bytes, SubSeq(bytes, 1, Len(bytes) - 1), Append(bytes, 0),
     SubSeq(bytes, 1, Len(bytes) - G1_SIZE),
     bytes \o Vec([k \in 1 .. G1_SIZE |-> 0]),
     Corrupt(bytes), Corrupt(Append(bytes, 0))}

VkToGnark ==
    /\ pc = "keys"
    /\ gnarkBytes' = verifying_key_to_gnark(setupResult.val.verifying_key)
    /\ pc' = "vk_bytes"
    /\ UNCHANGED <<debug_build, r1cs, witness, setupResult, proofResult, verifyArgs,
                   verifyResult, gnarkDecoded, codecVars, convVars, moreVars>>

VkFromGnark ==
    /\ pc = "vk_bytes"
    /\ \E bytes \in ByteVariants(gnarkBytes.val) :
          gnarkDecoded' =
              [input |-> bytes,
               num_public_inputs |-> Len(r1cs.public_inputs),
               result |-> verifying_key_from_gnark(bytes, Len(r1cs.public_inputs))]
    /\ pc' = "vk_decoded"
    /\ UNCHANGED <<debug_build, r1cs, witness, setupResult, proofResult, verifyArgs,
                   verifyResult, gnarkBytes, codecVars, convVars, moreVars>>

ProofToGnark ==
    /\ pc = "proved"
    /\ \E p \in {proofResult.val.proof, [proofResult.val.proof EXCEPT !.a = G1Zero]} :
          /\ verifyArgs' = [proof |-> p, public_inputs |-> proofResult.val.public_inputs]
          /\ gnarkBytes' = proof_to_gnark(p)
    /\ pc' = "proof_bytes"
    /\ UNCHANGED <<debug_build, r1cs, witness, setupResult, proofResult,
                   verifyResult, gnarkDecoded, codecVars, convVars, moreVars>>

ProofFromGnark ==
    /\ pc = "proof_bytes"
    /\ \E bytes \in ByteVariants(gnarkBytes.val) :
          gnarkDecoded' = [input |-> bytes,
                           num_public_inputs |-> Len(r1cs.public_inputs),
                           result |-> proof_from_gnark(bytes)]
    /\ pc' = "proof_decoded"
    /\ UNCHANGED <<debug_build, r1cs, witness, setupResult, proofResult, verifyArgs,
                   verifyResult, gnarkBytes, codecVars, convVars, moreVars>>

(* verify with the proof recovered from its gnark bytes *)
VerifyDecoded ==
    /\ pc = "proof_decoded"
    /\ IsOk(gnarkDecoded.result)
    /\ verifyResult' = verify(setupResult.val.verifying_key, gnarkDecoded.result.val,
                              verifyArgs.public_inputs)
    /\ pc' = "verified_decoded"
    /\ UNCHANGED <<debug_build, r1cs, witness, setupResult, proofResult, verifyArgs,
                   gnarkBytes, gnarkDecoded, codecVars, convVars, moreVars>>

Next ==
    \/ Setup
    \/ Prove
    \/ Verify
    \/ VerifyOther
    \/ VkToGnark
    \/ VkFromGnark
    \/ ProofToGnark
    \/ ProofFromGnark
    \/ VerifyDecoded

Spec == Init /\ [][Next]_vars

----------------------------------------------------------------------------
(* What the claims speak of: an R1CS constraint A * B = C under a witness   *)
(* map, read directly off the term lists.                                   *)

RECURSIVE TermSumFrom(_, _, _)
TermSumFrom(terms, w, i) ==
    IF i > Len(terms) THEN 0
    ELSE FrAdd(FrMul(terms[i][1], w[terms[i][2]]), TermSumFrom(terms, w, i + 1))
TermSum(terms, w) == TermSumFrom(terms, w, 1)

TermIndices(terms) == {terms[i][2] : i \in 1 .. Len(terms)}
R1csIndices(r) ==
    UNION {TermIndices(r.constraints[j].a) \cup TermIndices(r.constraints[j].b)
           \cup TermIndices(r.constraints[j].c) : j \in 1 .. Len(r.constraints)}
PublicIndices(r) == {r.public_inputs[i] : i \in 1 .. Len(r.public_inputs)}
RequiredIndices(r) == PublicIndices(r) \cup (1 .. (r.num_witnesses - 1))

(* The map has every index the R1CS names, and index 0 is the constant one. *)
Complete(r, w) ==
    /\ ({0} \cup RequiredIndices(r) \cup R1csIndices(r)) \subseteq DOMAIN w
    /\ w[0] = 1
Satisfies(r, w) ==
    \A j \in 1 .. Len(r.constraints) :
        FrMul(TermSum(r.constraints[j].a, w), TermSum(r.constraints[j].b, w))
            = TermSum(r.constraints[j].c, w)
(* Every term of every constraint names an index that synthesis allocates. *)
TermsAllocated(r) == R1csIndices(r) \subseteq ({0} \cup RequiredIndices(r))

Ran(res) == res.tag # "None"

(* C1 as stated: for every R1CS and every complete witness map satisfying   *)
(* all of its constraints, setup, prove and verify succeed and verify       *)
(* returns Ok(true).                                                       *)
C1_Original ==
    (Complete(r1cs, witness) /\ Satisfies(r1cs, witness)) =>
        /\ Ran(setupResult) => IsOk(setupResult)
        /\ Ran(proofResult) => IsOk(proofResult)
        /\ pc = "verified" => verifyResult = Ok(TRUE)

(* The same holds for every R1CS whose constraint terms name only index 0,  *)
(* declared public indices and indices below num_witnesses: there the three *)
(* calls succeed and verify returns Ok(true).                               *)
SetupProveVerifyWhenTermsAllocated ==
    (TermsAllocated(r1cs) /\ Complete(r1cs, witness) /\ Satisfies(r1cs, witness)) =>
        /\ Ran(setupResult) => IsOk(setupResult)
        /\ Ran(proofResult) => IsOk(proofResult)
        /\ pc = "verified" => verifyResult = Ok(TRUE)

(* the test's case: w1 * w2 = w3, z public, x = 3, y = 4, z = 12 *)
TestCaseVerified ==
    /\ pc = "verified"
    /\ r1cs.constraints = <<K_mul>>
    /\ r1cs.public_inputs = <<3>>
    /\ witness[1] = 3 /\ witness[2] = 4 /\ witness[3] = 12
    /\ verifyResult = Ok(TRUE)

(* C2 as stated: for every R1CS and every complete witness map violating    *)
(* at least one constraint, prove returns an error of kind ProofError and   *)
(* yields no proof.                                                        *)
C2_Original ==
    (Complete(r1cs, witness) /\ ~Satisfies(r1cs, witness) /\ Ran(proofResult)) =>
        IsErr(proofResult, "ProofError")

(* C3 as stated: when an index prove requires (a declared public index or   *)
(* an index from 1 below num_witnesses) is absent from the witness map,     *)
(* prove fails with MissingWitness naming that index.                       *)
C3_Original ==
    (Ran(proofResult) /\ RequiredIndices(r1cs) \ DOMAIN witness # {}) =>
        \E idx \in RequiredIndices(r1cs) \ DOMAIN witness :
            proofResult = MissingWitness(idx)

(* C4: the public inputs prove returns are the witness values at the        *)
(* declared public indices, in declaration order, one per declaration       *)
(* (a repeated index is repeated).                                         *)
C4_PublicInputsInOrder ==
    IsOk(proofResult) =>
        /\ Len(proofResult.val.public_inputs) = Len(r1cs.public_inputs)
        /\ \A i \in 1 .. Len(r1cs.public_inputs) :
              proofResult.val.public_inputs[i] = witness[r1cs.public_inputs[i]]

C4_Witness ==
    /\ pc = "proved"
    /\ r1cs.public_inputs = <<3, 3>>
    /\ proofResult.val.public_inputs = <<12, 12>>

(* The Groth16 equation e(A, B) = e(alpha, beta) + e(sum x_i K_i, gamma)    *)
(* + e(C, delta), target group written additively.                          *)
RECURSIVE InputSum(_, _, _)
InputSum(gamma_abc_g1, inputs, i) ==
    IF i > Len(inputs) THEN G1Zero
    ELSE G1Add(G1Mul(inputs[i], gamma_abc_g1[i + 1]), InputSum(gamma_abc_g1, inputs, i + 1))
Consistent(vk, proof, inputs) ==
    Pairing(proof.a, proof.b) =
        FrAdd(Pairing(vk.alpha_g1, vk.beta_g2),
              FrAdd(Pairing(G1Add(vk.gamma_abc_g1[1], InputSum(vk.gamma_abc_g1, inputs, 1)),
                            vk.gamma_g2),
                    Pairing(proof.c, vk.delta_g2)))
InputLengthFits(vk, inputs) == Len(inputs) + 1 = Len(vk.gamma_abc_g1)

(* C5: verify returns Err(VerificationError) exactly when the input vector  *)
(* has the wrong length for the key, and otherwise Ok(b) with b true        *)
(* exactly when the proof is consistent with the inputs: an inconsistent    *)
(* well-formed proof gives Ok(false), never an error, and a length mismatch *)
(* gives the error, never Ok(false).                                       *)
C5_FalseIsNotError ==
    pc \in {"verified", "verified_other"} =>
        LET vk == setupResult.val.verifying_key
        IN  IF InputLengthFits(vk, verifyArgs.public_inputs)
            THEN /\ IsOk(verifyResult)
                 /\ verifyResult.val = Consistent(vk, verifyArgs.proof, verifyArgs.public_inputs)
            ELSE IsErr(verifyResult, "VerificationError")

C5_Witness ==
    /\ pc = "verified_other"
    /\ verifyArgs.public_inputs = proofResult.val.public_inputs
    /\ verifyArgs.proof # proofResult.val.proof
    /\ verifyResult = Ok(FALSE)

(* The number a big-endian byte string denotes. *)
RECURSIVE BigEndianValue(_)
BigEndianValue(bytes) ==
    IF Len(bytes) = 0 THEN 0
    ELSE 256 * BigEndianValue(SubSeq(bytes, 1, Len(bytes) - 1)) + bytes[Len(bytes)]

(* bytes[from+1 .. from+64] are x then y of the G1 point, 32 bytes each,    *)
(* or all zero for the point at infinity.                                  *)
HoldsG1(bytes, from, point) ==
    IF point.infinity THEN AllZero(SubSeq(bytes, from + 1, from + 64))
    ELSE /\ BigEndianValue(SubSeq(bytes, from + 1, from + 32)) = point.x
         /\ BigEndianValue(SubSeq(bytes, from + 33, from + 64)) = point.y
HoldsG2(bytes, from, point) ==
    IF point.infinity THEN AllZero(SubSeq(bytes, from + 1, from + 128))
    ELSE /\ BigEndianValue(SubSeq(bytes, from + 1, from + 32)) = point.x[1]
         /\ BigEndianValue(SubSeq(bytes, from + 33, from + 64)) = point.x[2]
         /\ BigEndianValue(SubSeq(bytes, from + 65, from + 96)) = point.y[1]
         /\ BigEndianValue(SubSeq(bytes, from + 97, from + 128)) = point.y[2]

(* C6: proof_to_gnark gives 256 bytes, A in the first 64, B in the next     *)
(* 128, C in the last 64; proof_from_gnark of those bytes gives the proof   *)
(* back; and a proof verify accepts is still accepted after the round trip. *)
C6_ProofRoundTrip ==
    /\ pc \in {"proof_bytes", "proof_decoded", "verified_decoded"} =>
          /\ IsOk(gnarkBytes)
          /\ Len(gnarkBytes.val) = 256
          /\ HoldsG1(gnarkBytes.val, 0, verifyArgs.proof.a)
          /\ HoldsG2(gnarkBytes.val, 64, verifyArgs.proof.b)
          /\ HoldsG1(gnarkBytes.val, 192, verifyArgs.proof.c)
    /\ (pc \in {"proof_decoded", "verified_decoded"}
        /\ gnarkDecoded.input = gnarkBytes.val) =>
          gnarkDecoded.result = Ok(verifyArgs.proof)
    /\ (pc = "verified_decoded" /\ gnarkDecoded.input = gnarkBytes.val
        /\ verify(setupResult.val.verifying_key, verifyArgs.proof,
                  verifyArgs.public_inputs) = Ok(TRUE)) =>
          verifyResult = Ok(TRUE)

C6_Witness ==
    /\ pc = "verified_decoded"
    /\ gnarkDecoded.input = gnarkBytes.val
    /\ verifyArgs.proof = proofResult.val.proof
    /\ ~verifyArgs.proof.a.infinity
    /\ verifyResult = Ok(TRUE)

VkSize(n) == 64 + 128 * 3 + 64 * (n + 1)

(* C8: verifying_key_to_gnark gives 64 + 128*3 + 64*(n+1) bytes for n       *)
(* public inputs, laid out alpha, beta, gamma, delta, k_0 .. k_n; and       *)
(* verifying_key_from_gnark of those bytes and n gives the key back.        *)
C8_VkRoundTrip ==
    /\ pc \in {"vk_bytes", "vk_decoded"} =>
          LET vk == setupResult.val.verifying_key
              n == Len(r1cs.public_inputs)
              bytes == gnarkBytes.val
          IN  /\ IsOk(gnarkBytes)
              /\ Len(bytes) = VkSize(n)
              /\ Len(vk.gamma_abc_g1) = n + 1
              /\ HoldsG1(bytes, 0, vk.alpha_g1)
              /\ HoldsG2(bytes, 64, vk.beta_g2)
              /\ HoldsG2(bytes, 192, vk.gamma_g2)
              /\ HoldsG2(bytes, 320, vk.delta_g2)
              /\ \A i \in 0 .. n : HoldsG1(bytes, 448 + 64 * i, vk.gamma_abc_g1[i + 1])
    /\ (pc = "vk_decoded" /\ gnarkDecoded.input = gnarkBytes.val) =>
          gnarkDecoded.result = Ok(setupResult.val.verifying_key)

C8_Witness ==
    /\ pc = "vk_decoded"
    /\ Len(r1cs.public_inputs) = 2
    /\ gnarkDecoded.input = gnarkBytes.val
    /\ gnarkDecoded.result = Ok(setupResult.val.verifying_key)

(* C9: proof_from_gnark on input that is not 256 bytes long, and            *)
(* verifying_key_from_gnark on input that is not 64 + 128*3 + 64*(n+1)      *)
(* bytes long, return a ParseError and nothing else, whatever the bytes     *)
(* hold: no point is decoded first.                                         *)
C9_LengthCheckedFirst ==
    /\ (pc \in {"proof_decoded", "verified_decoded"} /\ Len(gnarkDecoded.input) # 256) =>
          gnarkDecoded.result = Err("ParseError")
    /\ (pc = "vk_decoded"
        /\ Len(gnarkDecoded.input) # VkSize(gnarkDecoded.num_public_inputs)) =>
          gnarkDecoded.result = Err("ParseError")

(* a 257-byte input whose first point is not on the curve *)
C9_Witness ==
    /\ pc = "proof_decoded"
    /\ Len(gnarkDecoded.input) = 257
    /\ gnarkDecoded.input[64] # gnarkBytes.val[64]
    /\ gnarkDecoded.result = Err("ParseError")

----------------------------------------------------------------------------
(* Codec round trip: every field element and point, encoded then decoded.  *)

InitCodec ==
    /\ PipeIdle
    /\ ConvIdle
    /\ MoreIdle
    /\ cpc = "value"
    /\ cval \in [fr : Fr, g1 : G1Points, g2 : G2Points]
    /\ cbytes = None
    /\ cdec = None

CodecEncode ==
    /\ cpc = "value"
    /\ cbytes' = [fr |-> fr_to_be_bytes(cval.fr),
                  g1 |-> g1_to_gnark(cval.g1),
                  g2 |-> g2_to_gnark(cval.g2)]
    /\ cpc' = "encoded"
    /\ UNCHANGED <<cval, cdec, pipeVars, convVars, moreVars>>

CodecDecode ==
    /\ cpc = "encoded"
    /\ cdec' = [fr |-> fr_from_be_bytes(cbytes.fr),
                g1 |-> g1_from_gnark(cbytes.g1),
                g2 |-> g2_from_gnark(cbytes.g2)]
    /\ cpc' = "decoded"
    /\ UNCHANGED <<cval, cbytes, pipeVars, convVars, moreVars>>

NextCodec == CodecEncode \/ CodecDecode

SpecCodec == InitCodec /\ [][NextCodec]_vars

(* C7: decoding inverts encoding for every scalar, every G1 point and every *)
(* G2 point; the point at infinity encodes as all-zero bytes.              *)
C7_DecodeInvertsEncode ==
    /\ cpc \in {"encoded", "decoded"} =>
          /\ Len(cbytes.fr) = FIELD_SIZE
          /\ Len(cbytes.g1) = G1_SIZE
          /\ Len(cbytes.g2) = G2_SIZE
          /\ cval.g1.infinity => AllZero(cbytes.g1)
          /\ cval.g2.infinity => AllZero(cbytes.g2)
    /\ cpc = "decoded" =>
          /\ cdec.fr = Ok(cval.fr)
          /\ cdec.g1 = Ok(cval.g1)
          /\ cdec.g2 = Ok(cval.g2)

C7_Witness ==
    /\ cpc = "decoded"
    /\ cval.g1.infinity
    /\ ~cval.g2.infinity
    /\ cval.fr = R - 1
    /\ cdec.g2 = Ok(cval.g2)

----------------------------------------------------------------------------
(* acir_to_r1cs.rs: parse_field_element and expression_to_r1cs. A &str is  *)
(* a sequence of one-character strings.                                    *)

LowerHex == <<"0", "1", "2", "3", "4", "5", "6", "7", "8", "9", "a", "b", "c", "d", "e", "f">>
UpperHex == <<"0", "1", "2", "3", "4", "5", "6", "7", "8", "9", "A", "B", "C", "D", "E", "F">>
IsHexChar(c) == \E i \in 1 .. 16 : LowerHex[i] = c \/ UpperHex[i] = c
HexCharValue(c) == (CHOOSE i \in 1 .. 16 : LowerHex[i] = c \/ UpperHex[i] = c) - 1

(* hex::decode: an odd length or a non-hex character is an error. *)
hex_decode(chars) ==
    IF Len(chars) % 2 = 1 THEN Err("OddLength")
    ELSE IF \E i \in 1 .. Len(chars) : ~IsHexChar(chars[i]) THEN Err("InvalidHexCharacter")
    ELSE Ok(Vec([k \in 1 .. (Len(chars) \div 2) |->
                    16 * HexCharValue(chars[2 * k - 1]) + HexCharValue(chars[2 * k])]))

IsWhitespace(c) == c \in {" ", "\t", "\n", "\r"}
RECURSIVE trim_start(_)
trim_start(str) ==
    IF Len(str) > 0 /\ IsWhitespace(str[1]) THEN trim_start(Tail(str)) ELSE str
RECURSIVE trim_end(_)
trim_end(str) ==
    IF Len(str) > 0 /\ IsWhitespace(str[Len(str)])
    THEN trim_end(SubSeq(str, 1, Len(str) - 1)) ELSE str
trim(str) == trim_end(trim_start(str))

RECURSIVE trim_start_matches(_, _)
trim_start_matches(str, c) ==
    IF Len(str) > 0 /\ str[1] = c THEN trim_start_matches(Tail(str), c) ELSE str

(* s.strip_prefix("0x").unwrap_or(s) *)
strip_prefix_0x(str) ==
    IF Len(str) >= 2 /\ str[1] = "0" /\ str[2] = "x" THEN SubSeq(str, 3, Len(str)) ELSE str

(* hex::decode(hex_str.trim_start_matches('0')).or_else(|_| hex::decode of   *)
(* hex_str, padded with a "0" to even length)                              *)
decode_hex_str(hex_str) ==
    LET first == hex_decode(trim_start_matches(hex_str, "0"))
    IN  IF IsOk(first) THEN first
        ELSE hex_decode(IF Len(hex_str) % 2 = 1 THEN <<"0">> \o hex_str ELSE hex_str)

(* be_bytes[start..].copy_from_slice(&bytes[bytes.len().saturating_sub(32)..]) *)
be_bytes_of(bytes) ==
    LET n == Len(bytes)
        m == IF n < FIELD_SIZE THEN n ELSE FIELD_SIZE
    IN  Vec([k \in 1 .. FIELD_SIZE |->
            IF k <= FIELD_SIZE - m THEN 0 ELSE bytes[n - FIELD_SIZE + k]])

from_be_bytes_mod_order(be_bytes, p) ==
    from_le_bytes_mod_order(Vec([k \in 1 .. Len(be_bytes) |->
                                   be_bytes[Len(be_bytes) - k + 1]]), p)

parse_field_element(str) ==
    IF trim(str) \in {<<>>, <<"0">>, <<"0", "x", "0">>, <<"0", "x", "0", "0">>} THEN Ok(0)
    ELSE AndThen(MapErr(decode_hex_str(strip_prefix_0x(trim(str))), "ParseError"),
                 LAMBDA bytes :
         Ok(from_be_bytes_mod_order(be_bytes_of(bytes), R)))

(* for (coeff, witness) in linear { terms.push((coeff_fr, *witness)) }, the *)
(* coefficient negated when the terms go to C; the first parse error ends   *)
(* the loop.                                                               *)
RECURSIVE ParseTerms(_, _, _)
ParseTerms(linear, negate, i) ==
    IF i > Len(linear) THEN Ok(<<>>)
    ELSE AndThen(parse_field_element(linear[i][1]), LAMBDA coeff_fr :
         AndThen(ParseTerms(linear, negate, i + 1), LAMBDA rest :
         Ok(<<<<IF negate THEN FrNeg(coeff_fr) ELSE coeff_fr, linear[i][2]>>>> \o rest)))

(* Variant: the coefficient of the multiplication term is applied to both  *)
(* factors.                                                                *)
expression_to_r1cs_coeff_on_both(e) ==
    AndThen(parse_field_element(e.q_c), LAMBDA q_c :
    IF Len(e.mul_terms) = 0
    THEN AndThen(ParseTerms(e.linear_combinations, FALSE, 1), LAMBDA a_terms :
         Ok(<<[a |-> a_terms \o (IF q_c # 0 THEN <<<<q_c, 0>>>> ELSE <<>>),
               b |-> <<<<1, 0>>>>,
               c |-> <<>>]>>))
    ELSE IF Len(e.mul_terms) = 1
    THEN AndThen(parse_field_element(e.mul_terms[1][1]), LAMBDA mul_coeff_fr :
         AndThen(ParseTerms(e.linear_combinations, TRUE, 1), LAMBDA c_terms :
         Ok(<<[a |-> <<<<mul_coeff_fr, e.mul_terms[1][2]>>>>,
               b |-> <<<<mul_coeff_fr, e.mul_terms[1][3]>>>>,
               c |-> c_terms \o (IF q_c # 0 THEN <<<<FrNeg(q_c), 0>>>> ELSE <<>>)]>>)))
    ELSE Err("UnsupportedOpcode"))

(* Variant: with no multiplication term the constant is pushed before the  *)
(* linear terms.                                                           *)
expression_to_r1cs_constant_first(e) ==
    AndThen(parse_field_element(e.q_c), LAMBDA q_c :
    IF Len(e.mul_terms) = 0
    THEN AndThen(ParseTerms(e.linear_combinations, FALSE, 1), LAMBDA a_terms :
         Ok(<<[a |-> (IF q_c # 0 THEN <<<<q_c, 0>>>> ELSE <<>>) \o a_terms,
               b |-> <<<<1, 0>>>>,
               c |-> <<>>]>>))
    ELSE IF Len(e.mul_terms) = 1
    THEN AndThen(parse_field_element(e.mul_terms[1][1]), LAMBDA mul_coeff_fr :
         AndThen(ParseTerms(e.linear_combinations, TRUE, 1), LAMBDA c_terms :
         Ok(<<[a |-> <<<<mul_coeff_fr, e.mul_terms[1][2]>>>>,
               b |-> <<<<1, e.mul_terms[1][3]>>>>,
               c |-> c_terms \o (IF q_c # 0 THEN <<<<FrNeg(q_c), 0>>>> ELSE <<>>)]>>)))
    ELSE Err("UnsupportedOpcode"))

(* Variant: with several multiplication terms the first one is converted   *)
(* and the others are dropped.                                             *)
expression_to_r1cs_first_mul_only(e) ==
    AndThen(parse_field_element(e.q_c), LAMBDA q_c :
    IF Len(e.mul_terms) = 0
    THEN AndThen(ParseTerms(e.linear_combinations, FALSE, 1), LAMBDA a_terms :
         Ok(<<[a |-> a_terms \o (IF q_c # 0 THEN <<<<q_c, 0>>>> ELSE <<>>),
               b |-> <<<<1, 0>>>>,
               c |-> <<>>]>>))
    ELSE AndThen(parse_field_element(e.mul_terms[1][1]), LAMBDA mul_coeff_fr :
         AndThen(ParseTerms(e.linear_combinations, TRUE, 1), LAMBDA c_terms :
         Ok(<<[a |-> <<<<mul_coeff_fr, e.mul_terms[1][2]>>>>,
               b |-> <<<<1, e.mul_terms[1][3]>>>>,
               c |-> c_terms \o (IF q_c # 0 THEN <<<<FrNeg(q_c), 0>>>> ELSE <<>>)]>>))))

(* Variant: the linear terms and the constant go to C as they are. *)
expression_to_r1cs_unnegated(e) ==
    AndThen(parse_field_element(e.q_c), LAMBDA q_c :
    IF Len(e.mul_terms) = 1
    THEN AndThen(parse_field_element(e.mul_terms[1][1]), LAMBDA mul_coeff_fr :
         AndThen(ParseTerms(e.linear_combinations, FALSE, 1), LAMBDA c_terms :
         Ok(<<[a |-> <<<<mul_coeff_fr, e.mul_terms[1][2]>>>>,
               b |-> <<<<1, e.mul_terms[1][3]>>>>,
               c |-> c_terms \o (IF q_c # 0 THEN <<<<q_c, 0>>>> ELSE <<>>)]>>)))
    ELSE Err("UnsupportedOpcode"))

expression_to_r1cs(e) ==
    AndThen(parse_field_element(e.q_c), LAMBDA q_c :
    IF Len(e.mul_terms) = 0
    THEN AndThen(ParseTerms(e.linear_combinations, FALSE, 1), LAMBDA a_terms :
         Ok(<<[a |-> a_terms \o (IF q_c # 0 THEN <<<<q_c, 0>>>> ELSE <<>>),
               b |-> <<<<1, 0>>>>,
               c |-> <<>>]>>))
    ELSE IF Len(e.mul_terms) = 1
    THEN AndThen(parse_field_element(e.mul_terms[1][1]), LAMBDA mul_coeff_fr :
         AndThen(ParseTerms(e.linear_combinations, TRUE, 1), LAMBDA c_terms :
         Ok(<<[a |-> <<<<mul_coeff_fr, e.mul_terms[1][2]>>>>,
               b |-> <<<<1, e.mul_terms[1][3]>>>>,
               c |-> c_terms \o (IF q_c # 0 THEN <<<<FrNeg(q_c), 0>>>> ELSE <<>>)]>>)))
    ELSE Err("UnsupportedOpcode"))

----------------------------------------------------------------------------
(* Conversion of one AssertZero expression, as a state machine.            *)

MaxMulTerms == 2
MaxLinear == 2

(* "0x1", "0x3", "0x0c" (= -1 in the scaled field), "0x100", "0x0", "",     *)
(* " 0x5 ", "ff", "0xC" and the test's "-0x5"                               *)
S_1 == <<"0", "x", "1">>
S_3 == <<"0", "x", "3">>
S_neg1 == <<"0", "x", "0", "c">>
S_100 == <<"0", "x", "1", "0", "0">>
S_0 == <<"0", "x", "0">>
S_empty == <<>>
S_5 == <<" ", "0", "x", "5", " ">>
S_ff == <<"f", "f">>
S_C == <<"0", "x", "C">>
S_minus5 == <<"-", "0", "x", "5">>

MulTermPool == {<<S_1, 1, 2>>, <<S_3, 2, 2>>, <<S_minus5, 1, 2>>, <<S_0, 0, 2>>}
LinearPool == {<<S_neg1, 3>>, <<S_100, 1>>, <<S_0, 2>>, <<S_minus5, 3>>, <<S_3, 0>>}
ConstantPool == {S_0, S_empty, S_5, S_ff, S_C, S_minus5}

ExpressionInputs ==
    [mul_terms : SeqsUpTo(MulTermPool, MaxMulTerms),
     linear_combinations : SeqsUpTo(LinearPool, MaxLinear),
     q_c : ConstantPool]

InitConv ==
    /\ PipeIdle
    /\ CodecIdle
    /\ MoreIdle
    /\ xpc = "expression"
    /\ expr \in ExpressionInputs
    /\ exprResult = None

ExpressionToR1cs ==
    /\ xpc = "expression"
    /\ exprResult' = expression_to_r1cs(expr)
    /\ xpc' = "converted"
    /\ UNCHANGED <<expr, pipeVars, codecVars, moreVars>>

NextConv == ExpressionToR1cs

SpecConv == InitConv /\ [][NextConv]_vars

(* The field element a coefficient string denotes: the hexadecimal number   *)
(* after surrounding whitespace and an optional "0x", modulo the field      *)
(* order; the string denotes one iff only hex digits remain.                *)
HexBody(str) == strip_prefix_0x(trim(str))
IsFieldString(str) == \A i \in 1 .. Len(HexBody(str)) : IsHexChar(HexBody(str)[i])
RECURSIVE HexNumber(_)
HexNumber(chars) ==
    IF Len(chars) = 0 THEN 0
    ELSE 16 * HexNumber(SubSeq(chars, 1, Len(chars) - 1)) + HexCharValue(chars[Len(chars)])
FieldOf(str) == HexNumber(HexBody(str)) % R

(* C10: an expression with exactly one multiplication term coeff*a*b (all   *)
(* its coefficient strings denoting field elements) converts to exactly     *)
(* one constraint with A = [(coeff, a)], B = [(1, b)] and C = the linear    *)
(* terms negated, in order, followed by (-constant, 0) when the constant    *)
(* is non-zero.                                                            *)
C10_SingleMulTerm ==
    (/\ xpc = "converted"
     /\ Len(expr.mul_terms) = 1
     /\ IsFieldString(expr.q_c)
     /\ IsFieldString(expr.mul_terms[1][1])
     /\ \A i \in 1 .. Len(expr.linear_combinations) :
           IsFieldString(expr.linear_combinations[i][1])) =>
        LET mul == expr.mul_terms[1]
            lin == expr.linear_combinations
            n == Len(lin)
            constant == FieldOf(expr.q_c)
        IN  /\ IsOk(exprResult)
            /\ Len(exprResult.val) = 1
            /\ exprResult.val[1].a = <<<<FieldOf(mul[1]), mul[2]>>>>
            /\ exprResult.val[1].b = <<<<1, mul[3]>>>>
            /\ Len(exprResult.val[1].c) = n + (IF constant # 0 THEN 1 ELSE 0)
            /\ \A i \in 1 .. n :
                  exprResult.val[1].c[i] = <<(R - FieldOf(lin[i][1])) % R, lin[i][2]>>
            /\ constant # 0 => exprResult.val[1].c[n + 1] = <<(R - constant) % R, 0>>

(* the circuit w1 * w2 = w3: 1*w1*w2 + (-1)*w3 + 0 = 0 *)
C10_Witness ==
    /\ xpc = "converted"
    /\ expr = [mul_terms |-> <<<<S_1, 1, 2>>>>,
               linear_combinations |-> <<<<S_neg1, 3>>>>,
               q_c |-> S_0]
    /\ exprResult = Ok(<<[a |-> <<<<1, 1>>>>, b |-> <<<<1, 2>>>>, c |-> <<<<1, 3>>>>]>>)

(* C11: an expression with no multiplication term (all its coefficient     *)
(* strings denoting field elements) converts to exactly one constraint     *)
(* with A = the linear terms in their given order followed by              *)
(* (constant, 0) when the constant is non-zero, B = [(1, 0)] and C empty.  *)
C11_NoMulTerm ==
    (/\ xpc = "converted"
     /\ Len(expr.mul_terms) = 0
     /\ IsFieldString(expr.q_c)
     /\ \A i \in 1 .. Len(expr.linear_combinations) :
           IsFieldString(expr.linear_combinations[i][1])) =>
        LET lin == expr.linear_combinations
            n == Len(lin)
            constant == FieldOf(expr.q_c)
        IN  /\ IsOk(exprResult)
            /\ Len(exprResult.val) = 1
            /\ Len(exprResult.val[1].a) = n + (IF constant # 0 THEN 1 ELSE 0)
            /\ \A i \in 1 .. n :
                  exprResult.val[1].a[i] = <<FieldOf(lin[i][1]), lin[i][2]>>
            /\ constant # 0 => exprResult.val[1].a[n + 1] = <<constant, 0>>
            /\ exprResult.val[1].b = <<<<1, 0>>>>
            /\ exprResult.val[1].c = <<>>

(* (-1)*w3 + 0x100*w1 + 5 = 0 *)
C11_Witness ==
    /\ xpc = "converted"
    /\ expr = [mul_terms |-> <<>>,
               linear_combinations |-> <<<<S_neg1, 3>>, <<S_100, 1>>>>,
               q_c |-> S_5]
    /\ exprResult = Ok(<<[a |-> <<<<12, 3>>, <<9, 1>>, <<5, 0>>>>,
                          b |-> <<<<1, 0>>>>,
                          c |-> <<>>]>>)

(* C12 as stated: every expression with two or more multiplication terms   *)
(* is rejected with UnsupportedOpcode, whatever its linear terms,          *)
(* coefficients and constant are.                                          *)
C12_Original ==
    (xpc = "converted" /\ Len(expr.mul_terms) >= 2) =>
        IsErr(exprResult, "UnsupportedOpcode")

(* C12, amended: every expression with two or more multiplication terms    *)
(* is rejected; the error is UnsupportedOpcode when its constant denotes a *)
(* field element, whatever its linear terms and coefficients are, and      *)
(* ParseError when the constant does not parse (the constant is parsed     *)
(* before the multiplication terms are counted).                           *)
C12_TwoOrMoreMulTerms ==
    (xpc = "converted" /\ Len(expr.mul_terms) >= 2) =>
        IF IsFieldString(expr.q_c)
        THEN IsErr(exprResult, "UnsupportedOpcode")
        ELSE IsErr(exprResult, "ParseError")

(* two multiplication terms, one with an unparsable coefficient, and an     *)
(* unparsable linear coefficient: still UnsupportedOpcode                   *)
C12_Witness ==
    /\ xpc = "converted"
    /\ expr = [mul_terms |-> <<<<S_1, 1, 2>>, <<S_minus5, 1, 2>>>>,
               linear_combinations |-> <<<<S_minus5, 3>>>>,
               q_c |-> S_5]
    /\ exprResult = Err("UnsupportedOpcode")

----------------------------------------------------------------------------
(* Conversion of a whole ACIR program (acir_to_r1cs.rs, convert_circuit).   *)

(* u32, scaled to 3 bits: the largest WitnessIndex *)
U32_MAX == 7

(* circuit.current_witness_index + 1, in u32: an overflow panics in a      *)
(* debug build and wraps in a release build.                               *)
u32_add(x, y, debug) ==
    IF x + y > U32_MAX
    THEN IF debug THEN Panic ELSE Ok((x + y) % (U32_MAX + 1))
    ELSE Ok(x + y)

(* Variant: a Range call emits the booleanity constraint w * w = w. *)
convert_black_box_range_bits(bb, constraints) ==
    IF bb = "Range"
    THEN Ok(constraints \o <<[a |-> <<<<1, 1>>>>, b |-> <<<<1, 1>>>>, c |-> <<<<1, 1>>>>]>>)
    ELSE Err("UnsupportedOpcode")

(* Variant: an And call is skipped like a Range call. *)
convert_black_box_and_skipped(bb, constraints) ==
    IF bb \in {"Range", "And"} THEN Ok(constraints) ELSE Err("UnsupportedOpcode")

(* Range leaves the constraints as they are; every other variant is an     *)
(* UnsupportedOpcode error.                                                *)
convert_black_box(bb, constraints) ==
    IF bb = "Range" THEN Ok(constraints) ELSE Err("UnsupportedOpcode")

(* for opcode in &circuit.opcodes { match opcode { ... } } *)
RECURSIVE ConvertOpcodes(_, _, _)
ConvertOpcodes(opcodes, i, constraints) ==
    IF i > Len(opcodes) THEN Ok(constraints)
    ELSE CASE opcodes[i].type = "AssertZero" ->
                AndThen(expression_to_r1cs(opcodes[i].value), LAMBDA expr_constraints :
                ConvertOpcodes(opcodes, i + 1, constraints \o expr_constraints))
           [] opcodes[i].type = "BlackBoxFuncCall" ->
                AndThen(convert_black_box(opcodes[i].bb, constraints), LAMBDA cs :
                ConvertOpcodes(opcodes, i + 1, cs))
           [] opcodes[i].type \in {"MemoryOp", "MemoryInit", "BrilligCall"} ->
                ConvertOpcodes(opcodes, i + 1, constraints)
           [] opcodes[i].type = "Call" -> Err("UnsupportedOpcode")

convert_circuit(circuit, debug) ==
    AndThen(u32_add(circuit.current_witness_index, 1, debug), LAMBDA num_witnesses :
    AndThen(ConvertOpcodes(circuit.opcodes, 1, <<>>), LAMBDA constraints :
    Ok([num_witnesses |-> num_witnesses,
        public_inputs |-> circuit.public_parameters,
        private_inputs |-> circuit.private_parameters,
        return_values |-> circuit.return_values,
        constraints |-> constraints])))

(* program.functions.first().ok_or_else(|| ParseError("No main function")) *)
acir_to_r1cs(prog, debug) ==
    IF Len(prog.functions) = 0 THEN Err("ParseError")
    ELSE convert_circuit(prog.functions[1], debug)

MaxOpcodes == 3

(* w1 - w2 = 0; w1 * w2 = w3; an unparsable constant; two multiplications *)
E_lin == [mul_terms |-> <<>>,
          linear_combinations |-> <<<<S_1, 1>>, <<S_neg1, 2>>>>,
          q_c |-> S_0]
E_mul == [mul_terms |-> <<<<S_1, 1, 2>>>>,
          linear_combinations |-> <<<<S_neg1, 3>>>>,
          q_c |-> S_0]
E_bad == [mul_terms |-> <<>>,
          linear_combinations |-> <<<<S_1, 1>>>>,
          q_c |-> S_minus5]
E_two == [mul_terms |-> <<<<S_1, 1, 2>>, <<S_3, 2, 2>>>>,
          linear_combinations |-> <<>>,
          q_c |-> S_0]
E_none == [mul_terms |-> <<>>, linear_combinations |-> <<>>, q_c |-> S_empty]

AssertZero(value) == [type |-> "AssertZero", value |-> value, bb |-> ""]
BlackBoxFuncCall(bb) == [type |-> "BlackBoxFuncCall", value |-> E_none, bb |-> bb]
OtherOpcode(type) == [type |-> type, value |-> E_none, bb |-> ""]

OpcodePool ==
    {AssertZero(e) : e \in {E_lin, E_mul, E_bad, E_two}}
    \cup {BlackBoxFuncCall(bb) : bb \in {"Range", "And", "Unknown"}}
    \cup {OtherOpcode(t) : t \in {"MemoryOp", "MemoryInit", "BrilligCall", "Call"}}

CircuitInputs ==
    [current_witness_index : {0, 3, U32_MAX},
     opcodes : SeqsUpTo(OpcodePool, MaxOpcodes),
     private_parameters : {<<2>>},
     public_parameters : {<<>>, <<1, 1>>},
     return_values : {<<3>>}]

InitCirc ==
    /\ PipeIdle
    /\ CodecIdle
    /\ ConvIdle
    /\ ParseIdle
    /\ ChainIdle
    /\ LateIdle
    /\ apc = "program"
    /\ program \in {[functions |-> <<>>]} \cup {[functions |-> <<c>>] : c \in CircuitInputs}
    /\ r1csResult = None

AcirToR1cs ==
    /\ apc = "program"
    /\ \E debug \in BOOLEAN : r1csResult' = acir_to_r1cs(program, debug)
    /\ apc' = "converted"
    /\ UNCHANGED <<program, pipeVars, codecVars, convVars, parseVars, chainVars,
                   lateVars>>

NextCirc == AcirToR1cs

SpecCirc == InitCirc /\ [][NextCirc]_vars

(* What the claims about convert_circuit speak of. *)
Opcodes == program.functions[1].opcodes
Converted == apc = "converted" /\ Len(program.functions) > 0
IsUnsupported(op) ==
    \/ op.type = "Call"
    \/ op.type = "BlackBoxFuncCall" /\ op.bb # "Range"

(* The error kind an opcode has on its own, "" when it converts: an         *)
(* expression's constant is parsed first, then its multiplication terms    *)
(* are counted, then its coefficients are parsed.                          *)
OpcodeError(op) ==
    IF IsUnsupported(op) THEN "UnsupportedOpcode"
    ELSE IF op.type # "AssertZero" THEN ""
    ELSE IF ~IsFieldString(op.value.q_c) THEN "ParseError"
    ELSE IF Len(op.value.mul_terms) >= 2 THEN "UnsupportedOpcode"
    ELSE IF \/ \E i \in 1 .. Len(op.value.mul_terms) :
                  ~IsFieldString(op.value.mul_terms[i][1])
            \/ \E i \in 1 .. Len(op.value.linear_combinations) :
                  ~IsFieldString(op.value.linear_combinations[i][1])
         THEN "ParseError"
    ELSE ""
FirstFailing(ops) == CHOOSE i \in 1 .. Len(ops) :
    OpcodeError(ops[i]) # "" /\ \A k \in 1 .. (i - 1) : OpcodeError(ops[k]) = ""

(* C13 as stated: if the opcode sequence contains a Call opcode or a black  *)
(* box call other than Range, at any position, conversion fails with       *)
(* UnsupportedOpcode.                                                      *)
C13_Original ==
    (Converted /\ \E i \in 1 .. Len(Opcodes) : IsUnsupported(Opcodes[i])) =>
        IsErr(r1csResult, "UnsupportedOpcode")

(* C13, amended: if the opcode sequence contains a Call opcode or a black   *)
(* box call other than Range, at any position, conversion returns no       *)
(* R1CS: it fails with the error of the first opcode, in sequence order,   *)
(* that cannot be converted (UnsupportedOpcode for the Call or black box   *)
(* and for an expression with two or more multiplication terms,            *)
(* ParseError for an earlier expression whose constant or coefficient      *)
(* does not parse), or it aborts on the overflow of                        *)
(* current_witness_index + 1 before any opcode is looked at.               *)
C13_UnsupportedOpcodeFails ==
    (Converted /\ \E i \in 1 .. Len(Opcodes) : IsUnsupported(Opcodes[i])) =>
        /\ ~IsOk(r1csResult)
        /\ r1csResult = Panic => program.functions[1].current_witness_index = U32_MAX
        /\ r1csResult # Panic =>
              IsErr(r1csResult, OpcodeError(Opcodes[FirstFailing(Opcodes)]))

(* a Call between two convertible expressions *)
C13_Witness ==
    /\ Converted
    /\ Opcodes = <<AssertZero(E_lin), OtherOpcode("Call"), AssertZero(E_mul)>>
    /\ r1csResult = Err("UnsupportedOpcode")

RECURSIVE AssertZeroValues(_)
AssertZeroValues(ops) ==
    IF Len(ops) = 0 THEN <<>>
    ELSE (IF Head(ops).type = "AssertZero" THEN <<Head(ops).value>> ELSE <<>>)
         \o AssertZeroValues(Tail(ops))

(* C14: when conversion succeeds, the constraint list is the constraints   *)
(* of the AssertZero opcodes in opcode order: there are as many            *)
(* constraints as AssertZero opcodes and the i-th constraint is the one    *)
(* of the i-th AssertZero; the other opcodes contribute none.              *)
C14_ConstraintsInOpcodeOrder ==
    (Converted /\ IsOk(r1csResult)) =>
        LET values == AssertZeroValues(Opcodes)
        IN  /\ Len(r1csResult.val.constraints) = Len(values)
            /\ \A i \in 1 .. Len(values) :
                  expression_to_r1cs(values[i]) = Ok(<<r1csResult.val.constraints[i]>>)

(* w1 * w2 = w3, a range check, w1 - w2 = 0 *)
C14_Witness ==
    /\ Converted
    /\ Opcodes = <<AssertZero(E_mul), BlackBoxFuncCall("Range"), AssertZero(E_lin)>>
    /\ IsOk(r1csResult)
    /\ r1csResult.val.constraints =
          <<[a |-> <<<<1, 1>>>>, b |-> <<<<1, 2>>>>, c |-> <<<<1, 3>>>>],
            [a |-> <<<<1, 1>>, <<12, 2>>>>, b |-> <<<<1, 0>>>>, c |-> <<>>]>>

(* C15 as stated: the witness count of the R1CS equals the circuit's        *)
(* current_witness_index, which the circuit documents as its total number  *)
(* of witnesses.                                                           *)
C15_Original ==
    (Converted /\ IsOk(r1csResult)) =>
        r1csResult.val.num_witnesses = program.functions[1].current_witness_index

----------------------------------------------------------------------------
(* The on-chain verifier (solana-contracts, verifier.rs).  A run is the    *)
(* sequence of host calls made so far and the outcome, Result<T,           *)
(* VerifierError> or a panic.                                              *)

Ret(out) == [calls |-> <<>>, out |-> out]
HostCall(op, input, out) ==
    [calls |-> <<[op |-> op, input |-> input, out |-> out]>>, out |-> out]
Join(run, next) == [calls |-> run.calls \o next.calls, out |-> next.out]
(* `run?` followed by F on the unwrapped value *)
Bind(run, F(_)) == IF IsOk(run.out) THEN Join(run, F(run.out.val)) ELSE run
RunMapErr(run, kind) == [run EXCEPT !.out = MapErr(@, kind)]

(* The host's reading of 32 big-endian bytes as a base field element: a    *)
(* value not below the modulus is rejected.                                *)
HostFq(bytes) ==
    IF AllZero(SubSeq(bytes, 1, FIELD_SIZE - 1)) /\ bytes[FIELD_SIZE] < Q
    THEN Ok(bytes[FIELD_SIZE])
    ELSE Err("InvalidInputData")

(* The host's reading of 64 bytes as a G1 point: all zero is the point at  *)
(* infinity, anything else must be a point of the curve.                   *)
HostG1(bytes) ==
    IF AllZero(bytes) THEN Ok(G1Zero)
    ELSE AndThen(HostFq(Slice(bytes, 0, 32)), LAMBDA x :
         AndThen(HostFq(Slice(bytes, 32, 64)), LAMBDA y :
         IF G1IsOnCurve(x, y) THEN Ok([infinity |-> FALSE, x |-> x, y |-> y])
         ELSE Err("GroupError")))

(* input = point (64 bytes) || scalar (32 bytes, any 256-bit number) *)
alt_bn128_g1_multiplication_be(input) ==
    IF Len(input) # G1_SIZE + FIELD_SIZE THEN Err("InvalidInputData")
    ELSE AndThen(HostG1(Slice(input, 0, G1_SIZE)), LAMBDA point :
         Ok(g1_to_gnark(G1Mul(from_be_bytes_mod_order(
                Slice(input, G1_SIZE, G1_SIZE + FIELD_SIZE), R), point))))

(* input = point (64 bytes) || point (64 bytes) *)
alt_bn128_g1_addition_be(input) ==
    IF Len(input) # 2 * G1_SIZE THEN Err("InvalidInputData")
    ELSE AndThen(HostG1(Slice(input, 0, G1_SIZE)), LAMBDA p1 :
         AndThen(HostG1(Slice(input, G1_SIZE, 2 * G1_SIZE)), LAMBDA p2 :
         Ok(g1_to_gnark(G1Add(p1, p2)))))

(* input = pairs of (G1, G2) encodings; the outcome is the host's: an      *)
(* error, or 32 bytes of which the last is 1 iff the product of the        *)
(* pairings is the identity.                                               *)
alt_bn128_pairing_be(input, outcome) ==
    IF Len(input) % (G1_SIZE + G2_SIZE) # 0 THEN Err("InvalidInputData") ELSE outcome

(* Variant: input i is multiplied into k[i] instead of k[i+1]. *)
RECURSIVE PrepareLoop_unshifted(_, _, _, _)
PrepareLoop_unshifted(vk, public_inputs, i, acc) ==
    IF i >= Len(public_inputs) THEN Ret(Ok(acc))
    ELSE IF i + 1 > Len(vk.k) THEN Ret(Panic)
    ELSE Bind(RunMapErr(HostCall("g1_mul", vk.k[i + 1] \o public_inputs[i + 1],
                  alt_bn128_g1_multiplication_be(vk.k[i + 1] \o public_inputs[i + 1])),
              "G1MulFailed"), LAMBDA mul_result :
         Bind(RunMapErr(HostCall("g1_add", mul_result \o acc,
                  alt_bn128_g1_addition_be(mul_result \o acc)),
              "G1AddFailed"), LAMBDA add_result :
         PrepareLoop_unshifted(vk, public_inputs, i + 1, add_result)))

(* for (i, input) in public_inputs.iter().enumerate(): i counts from 0,    *)
(* vk.k[i + 1] is the (i + 2)-th entry of k; an index past the end of k    *)
(* panics.                                                                 *)
RECURSIVE PrepareLoop(_, _, _, _)
PrepareLoop(vk, public_inputs, i, acc) ==
    IF i >= Len(public_inputs) THEN Ret(Ok(acc))
    ELSE IF i + 2 > Len(vk.k) THEN Ret(Panic)
    ELSE Bind(RunMapErr(HostCall("g1_mul", vk.k[i + 2] \o public_inputs[i + 1],
                  alt_bn128_g1_multiplication_be(vk.k[i + 2] \o public_inputs[i + 1])),
              "G1MulFailed"), LAMBDA mul_result :
         Bind(RunMapErr(HostCall("g1_add", mul_result \o acc,
                  alt_bn128_g1_addition_be(mul_result \o acc)),
              "G1AddFailed"), LAMBDA add_result :
         PrepareLoop(vk, public_inputs, i + 1, add_result)))

(* let mut acc = vk.k[0]: panics when k is empty *)
chain_prepare_inputs(vk, public_inputs) ==
    IF Len(vk.k) = 0 THEN Ret(Panic)
    ELSE PrepareLoop(vk, public_inputs, 0, vk.k[1])

(* -1 in the scalar field, 32 bytes big-endian *)
neg_one == fr_to_be_bytes(R - 1)

negate_g1(point) ==
    RunMapErr(HostCall("g1_mul", point \o neg_one,
                       alt_bn128_g1_multiplication_be(point \o neg_one)),
              "G1MulFailed")

(* Fq::from_be_bytes_mod_order on each 32-byte quarter; infinity: false *)
g2_from_bytes(bytes) ==
    [infinity |-> FALSE,
     x |-> <<from_be_bytes_mod_order(Slice(bytes, 0, 32), Q),
             from_be_bytes_mod_order(Slice(bytes, 32, 64), Q)>>,
     y |-> <<from_be_bytes_mod_order(Slice(bytes, 64, 96), Q),
             from_be_bytes_mod_order(Slice(bytes, 96, 128), Q)>>]

g2_to_bytes(point) ==
    IF point.infinity THEN Vec([k \in 1 .. G2_SIZE |-> 0])
    ELSE fq_to_be_bytes(point.x[1]) \o fq_to_be_bytes(point.x[2])
         \o fq_to_be_bytes(point.y[1]) \o fq_to_be_bytes(point.y[2])

(* negate_g2 with the conjugate of y in place of its negation *)
negate_g2_conjugated(point) ==
    Ret(Ok(g2_to_bytes([g2_from_bytes(point) EXCEPT !.y = <<@[1], FqNeg(@[2])>>])))

(* G2Affine::neg negates y whatever the infinity flag is *)
negate_g2(point) ==
    Ret(Ok(g2_to_bytes([g2_from_bytes(point) EXCEPT !.y = Fq2Neg(@)])))

(* Variant: the pair (Kx, -gamma) comes before the pair (-alpha, beta). *)
PairingInput_kx_first(vk, proof, prepared_inputs, alpha_neg, gamma_neg, delta_neg) ==
    proof.a \o proof.b \o prepared_inputs \o gamma_neg
    \o alpha_neg \o vk.beta_g2 \o proof.c \o delta_neg

PairingInput(vk, proof, prepared_inputs, alpha_neg, gamma_neg, delta_neg) ==
    proof.a \o proof.b \o alpha_neg \o vk.beta_g2
    \o prepared_inputs \o gamma_neg \o proof.c \o delta_neg

(* Variant: a failed pairing call is reported as an invalid proof. *)
check_pairing_failure_as_invalid(pairing_input, outcome) ==
    Bind(RunMapErr(HostCall("pairing", pairing_input,
                            alt_bn128_pairing_be(pairing_input, outcome)),
                   "ProofVerificationFailed"), LAMBDA pairing_result :
    IF pairing_result[32] # 1 THEN Ret(Err("ProofVerificationFailed")) ELSE Ret(Ok(<<>>)))

(* alt_bn128_pairing_be(..).map_err(PairingFailed)?, then the last byte of *)
(* the 32-byte result                                                      *)
check_pairing(pairing_input, outcome) ==
    Bind(RunMapErr(HostCall("pairing", pairing_input,
                            alt_bn128_pairing_be(pairing_input, outcome)),
                   "PairingFailed"), LAMBDA pairing_result :
    IF pairing_result[32] # 1 THEN Ret(Err("ProofVerificationFailed")) ELSE Ret(Ok(<<>>)))

(* Variant: the number of inputs is compared after the inputs are prepared. *)
verify_groth16_count_checked_late(vk, proof, public_inputs, outcome) ==
    Bind(chain_prepare_inputs(vk, public_inputs), LAMBDA prepared_inputs :
    IF Len(public_inputs) # vk.nr_pubinputs THEN Ret(Err("InvalidPublicInputsCount"))
    ELSE
    Bind(negate_g1(vk.alpha_g1), LAMBDA alpha_neg :
    Bind(negate_g2(vk.gamma_g2), LAMBDA gamma_neg :
    Bind(negate_g2(vk.delta_g2), LAMBDA delta_neg :
    check_pairing(PairingInput(vk, proof, prepared_inputs, alpha_neg,
                               gamma_neg, delta_neg), outcome)))))

(* Variant: alpha is negated before the inputs are prepared. *)
verify_groth16_alpha_negated_first(vk, proof, public_inputs, outcome) ==
    IF Len(public_inputs) # vk.nr_pubinputs THEN Ret(Err("InvalidPublicInputsCount"))
    ELSE
    Bind(negate_g1(vk.alpha_g1), LAMBDA alpha_neg :
    Bind(chain_prepare_inputs(vk, public_inputs), LAMBDA prepared_inputs :
    Bind(negate_g2(vk.gamma_g2), LAMBDA gamma_neg :
    Bind(negate_g2(vk.delta_g2), LAMBDA delta_neg :
    check_pairing(PairingInput(vk, proof, prepared_inputs, alpha_neg,
                               gamma_neg, delta_neg), outcome)))))

verify_groth16(vk, proof, public_inputs, outcome) ==
    IF Len(public_inputs) # vk.nr_pubinputs THEN Ret(Err("InvalidPublicInputsCount"))
    ELSE
    Bind(chain_prepare_inputs(vk, public_inputs), LAMBDA prepared_inputs :
    Bind(negate_g1(vk.alpha_g1), LAMBDA alpha_neg :
    Bind(negate_g2(vk.gamma_g2), LAMBDA gamma_neg :
    Bind(negate_g2(vk.delta_g2), LAMBDA delta_neg :
    check_pairing(PairingInput(vk, proof, prepared_inputs, alpha_neg,
                               gamma_neg, delta_neg), outcome)))))

MaxChainInputs == 2

(* G and 2G, and (1, 1), which is not on the curve *)
P_gen == g1_to_gnark(G1Gen)
P_two == g1_to_gnark(G1Mul(2, G1Gen))
P_off == fq_to_be_bytes(1) \o fq_to_be_bytes(1)
Q_gen == g2_to_gnark(G2Gen)
Q_two == g2_to_gnark(G2Mul(2, G2Gen))

(* 5, and 15 = 2 modulo the group order *)
ScalarPool == {fr_to_be_bytes(5), fr_to_be_bytes(15)}

VkAccounts ==
    [nr_pubinputs : 0 .. MaxChainInputs,
     alpha_g1 : {P_gen, P_off},
     beta_g2 : {Q_gen},
     gamma_g2 : {Q_two},
     delta_g2 : {Q_gen},
     k : SeqsUpTo({P_gen, P_two, P_off}, MaxChainInputs + 1)]

PairingOutcomes ==
    {Err("InvalidInputData"),
     Ok(Vec([k \in 1 .. 32 |-> 0])),
     Ok(Vec([k \in 1 .. 32 |-> IF k = 32 THEN 1 ELSE 0]))}

InitChain ==
    /\ PipeIdle
    /\ CodecIdle
    /\ ConvIdle
    /\ CircIdle
    /\ ParseIdle
    /\ LateIdle
    /\ vpc = "submitted"
    /\ vkAccount \in VkAccounts
    /\ chainProof \in {[a |-> P_gen, b |-> Q_gen, c |-> P_two]}
    /\ chainInputs \in SeqsUpTo(ScalarPool, MaxChainInputs)
    /\ verifyRun = None

VerifyGroth16 ==
    /\ vpc = "submitted"
    /\ \E outcome \in PairingOutcomes :
          verifyRun' = [run |-> verify_groth16(vkAccount, chainProof, chainInputs, outcome),
                        prepared |-> IF Len(chainInputs) = vkAccount.nr_pubinputs
                                     THEN chain_prepare_inputs(vkAccount, chainInputs).out
                                     ELSE None]
    /\ vpc' = "verified"
    /\ UNCHANGED <<vkAccount, chainProof, chainInputs,
                   pipeVars, codecVars, convVars, circVars, parseVars, lateVars>>

NextChain == VerifyGroth16

SpecChain == InitChain /\ [][NextChain]_vars

(* What the claims about the on-chain verifier speak of. *)
Verified == vpc = "verified"
CountMatches == Len(chainInputs) = vkAccount.nr_pubinputs
IsG1Bytes(bytes) == \E p \in G1Points : g1_to_gnark(p) = bytes
G1OfBytes(bytes) == CHOOSE p \in G1Points : g1_to_gnark(p) = bytes
G2OfBytes(bytes) == CHOOSE p \in G2Points : g2_to_gnark(p) = bytes
ScalarOf(bytes) == BigEndianValue(bytes) % R

(* C16: when the number of supplied public inputs differs from the key's   *)
(* nr_pubinputs, verify_groth16 returns InvalidPublicInputsCount and no    *)
(* host curve operation has been invoked.                                  *)
C16_CountCheckedFirst ==
    (Verified /\ ~CountMatches) =>
        /\ verifyRun.run.out = Err("InvalidPublicInputsCount")
        /\ verifyRun.run.calls = <<>>

(* a well-formed key for two inputs, one input supplied *)
C16_Witness ==
    /\ Verified
    /\ vkAccount.nr_pubinputs = 2
    /\ vkAccount.k = <<P_gen, P_gen, P_two>>
    /\ vkAccount.alpha_g1 = P_gen
    /\ chainInputs = <<fr_to_be_bytes(5)>>
    /\ verifyRun.run = Ret(Err("InvalidPublicInputsCount"))

(* k[0] + sum over i < upto of input[i] * k[i+1], in the group *)
RECURSIVE KxSum(_, _, _)
KxSum(k, inputs, upto) ==
    IF upto = 0 THEN G1OfBytes(k[1])
    ELSE G1Add(KxSum(k, inputs, upto - 1),
               G1Mul(ScalarOf(inputs[upto]), G1OfBytes(k[upto + 1])))

(* C17: for a key with n public inputs (k holding n + 1 curve points) and  *)
(* an input vector of length n, prepare_inputs returns                     *)
(* Kx = k[0] + sum of input[i] * k[i+1], input i multiplied into k[i+1];   *)
(* for n = 0 it returns k[0] unchanged.                                    *)
C17_PreparedInputs ==
    (Verified /\ CountMatches /\ Len(vkAccount.k) = vkAccount.nr_pubinputs + 1) =>
        /\ (\A i \in 1 .. Len(vkAccount.k) : IsG1Bytes(vkAccount.k[i])) =>
              verifyRun.prepared =
                  Ok(g1_to_gnark(KxSum(vkAccount.k, chainInputs, Len(chainInputs))))
        /\ Len(chainInputs) = 0 => verifyRun.prepared = Ok(vkAccount.k[1])

(* G + 5*G + 15*(2G) = 10*G *)
C17_Witness ==
    /\ Verified
    /\ vkAccount.nr_pubinputs = 2
    /\ vkAccount.k = <<P_gen, P_gen, P_two>>
    /\ chainInputs = <<fr_to_be_bytes(5), fr_to_be_bytes(15)>>
    /\ verifyRun.prepared = Ok(g1_to_gnark(G1Of(10)))

IndicatorIsOne(out) == IsOk(out) /\ out.val[32] = 1

(* C18: the pairing primitive is handed                                    *)
(* [A, B, -alpha, beta, Kx, -gamma, C, -delta] in that order, 768 bytes,   *)
(* as the last host call; verify_groth16 returns Ok iff that call          *)
(* succeeds with the last byte of its 32-byte result equal to 1, and       *)
(* ProofVerificationFailed when it succeeds with another last byte.        *)
C18_PairingInputAndVerdict ==
    Verified =>
        LET calls == verifyRun.run.calls
        IN  /\ \A i \in 1 .. Len(calls) : calls[i].op = "pairing" =>
                  /\ i = Len(calls)
                  /\ Len(calls[i].input) = 768
                  /\ calls[i].input =
                        chainProof.a \o chainProof.b
                        \o g1_to_gnark(G1Neg(G1OfBytes(vkAccount.alpha_g1)))
                        \o vkAccount.beta_g2
                        \o verifyRun.prepared.val
                        \o g2_to_gnark(G2Neg(G2OfBytes(vkAccount.gamma_g2)))
                        \o chainProof.c
                        \o g2_to_gnark(G2Neg(G2OfBytes(vkAccount.delta_g2)))
                  /\ verifyRun.run.out = Ok(<<>>) <=> IndicatorIsOne(calls[i].out)
                  /\ (IsOk(calls[i].out) /\ ~IndicatorIsOne(calls[i].out)) =>
                        verifyRun.run.out = Err("ProofVerificationFailed")
            /\ verifyRun.run.out = Ok(<<>>) =>
                  Len(calls) > 0 /\ calls[Len(calls)].op = "pairing"

(* one input, every host call succeeds, the indicator byte is 1 *)
C18_Witness ==
    /\ Verified
    /\ vkAccount.nr_pubinputs = 1
    /\ vkAccount.k = <<P_gen, P_two>>
    /\ vkAccount.alpha_g1 = P_gen
    /\ chainInputs = <<fr_to_be_bytes(5)>>
    /\ Len(verifyRun.run.calls) = 4
    /\ verifyRun.run.calls[4].op = "pairing"
    /\ IndicatorIsOne(verifyRun.run.calls[4].out)
    /\ verifyRun.run.out = Ok(<<>>)

FailureCode(op) ==
    CASE op = "g1_mul" -> "G1MulFailed"
      [] op = "g1_add" -> "G1AddFailed"
      [] op = "pairing" -> "PairingFailed"

(* C19: whenever a host call fails, the result is that primitive's failure *)
(* code (G1MulFailed, G1AddFailed, PairingFailed), never                   *)
(* ProofVerificationFailed; ProofVerificationFailed is returned only when  *)
(* the pairing call succeeded with an indicator byte other than 1.         *)
C19_HostFailuresKeepTheirCode ==
    Verified =>
        LET calls == verifyRun.run.calls
        IN  /\ \A i \in 1 .. Len(calls) : ~IsOk(calls[i].out) =>
                  verifyRun.run.out = Err(FailureCode(calls[i].op))
            /\ verifyRun.run.out = Err("ProofVerificationFailed") =>
                  /\ Len(calls) > 0
                  /\ calls[Len(calls)].op = "pairing"
                  /\ IsOk(calls[Len(calls)].out)
                  /\ ~IndicatorIsOne(calls[Len(calls)].out)

(* k[0] is not a curve point: the first addition fails *)
C19_Witness ==
    /\ Verified
    /\ vkAccount.k = <<P_off, P_gen>>
    /\ chainInputs = <<fr_to_be_bytes(5)>>
    /\ Len(verifyRun.run.calls) = 2
    /\ verifyRun.run.calls[2].op = "g1_add"
    /\ ~IsOk(verifyRun.run.calls[2].out)
    /\ verifyRun.run.out = Err("G1AddFailed")

----------------------------------------------------------------------------
(* parse_field_element on its own (acir_to_r1cs.rs).                       *)

MaxStrLen == 4

ParseAlphabet == {"0", "1", "f", "F", "x", " ", "-"}

(* "0x01" followed by 64 zeros (33 bytes, the number 2^256) and 64 times   *)
(* "f" (32 bytes, the number 2^256 - 1)                                    *)
S_33bytes == <<"0", "x", "0", "1">> \o Vec([k \in 1 .. 64 |-> "0"])
S_32bytes == Vec([k \in 1 .. 64 |-> "f"])

ParseInputs == SeqsUpTo(ParseAlphabet, MaxStrLen) \cup {S_33bytes, S_32bytes}

InitParse ==
    /\ PipeIdle
    /\ CodecIdle
    /\ ConvIdle
    /\ CircIdle
    /\ ChainIdle
    /\ LateIdle
    /\ fpc = "string"
    /\ fstr \in ParseInputs
    /\ fparsed = None

ParseFieldElement ==
    /\ fpc = "string"
    /\ fparsed' = parse_field_element(fstr)
    /\ fpc' = "parsed"
    /\ UNCHANGED <<fstr, pipeVars, codecVars, convVars, circVars, chainVars,
                   lateVars>>

NextParse == ParseFieldElement

SpecParse == InitParse /\ [][NextParse]_vars

(* The hexadecimal number written by the digits, modulo p: the number     *)
(* written by the left half times 16^(digits of the right half), plus the  *)
(* number written by the right half.                                       *)
RECURSIVE Pow16Mod(_, _)
Pow16Mod(n, p) == IF n = 0 THEN 1 % p ELSE (16 * Pow16Mod(n - 1, p)) % p
RECURSIVE HexValueMod(_, _)
HexValueMod(chars, p) ==
    IF Len(chars) = 0 THEN 0
    ELSE IF Len(chars) = 1 THEN HexCharValue(chars[1]) % p
    ELSE LET h == Len(chars) \div 2
         IN  (HexValueMod(SubSeq(chars, 1, Len(chars) - h), p) * Pow16Mod(h, p)
              + HexValueMod(SubSeq(chars, Len(chars) - h + 1, Len(chars)), p)) % p

(* C20 as stated: a hex string, with or without the 0x prefix, leading     *)
(* zeros or an odd number of digits, is accepted and parsed to its         *)
(* numeric value reduced modulo the scalar field order ("", "0", "0x0",    *)
(* "0x00" give 0, "0x1" gives 1, "0x10" gives 16, "0xff" gives 255).       *)
C20_Original ==
    (fpc = "parsed" /\ IsFieldString(fstr)) =>
        fparsed = Ok(HexValueMod(HexBody(fstr), R))

(* The same for strings of at most 64 digits after the prefix: the bytes   *)
(* that are parsed fit the 32 bytes that are kept.                         *)
ParsedValueWithinFieldSize ==
    (fpc = "parsed" /\ IsFieldString(fstr) /\ Len(HexBody(fstr)) <= 2 * FIELD_SIZE) =>
        fparsed = Ok(HexValueMod(HexBody(fstr), R))

(* the strings of the test: "0x10" is 16 = 3 and "0xff" is 255 = 8 modulo R *)
ParsedTestStrings ==
    /\ (fpc = "parsed" /\ fstr = <<"0", "x", "1", "0">>) => fparsed = Ok(16 % R)
    /\ (fpc = "parsed" /\ fstr = <<"0", "x", "f", "f">>) => fparsed = Ok(255 % R)
    /\ (fpc = "parsed" /\ fstr = <<"0", "x", "1">>) => fparsed = Ok(1)
    /\ (fpc = "parsed" /\ fstr \in {<<>>, <<"0">>, <<"0", "x", "0">>, <<"0", "x", "0", "0">>})
          => fparsed = Ok(0)

(* the bytes that hex::decode hands to the 32-byte copy *)
DecodedBytes(str) == decode_hex_str(HexBody(str))
TooManyBytes(str) == IsOk(DecodedBytes(str)) /\ Len(DecodedBytes(str).val) > FIELD_SIZE

(* C21 as stated: parse_field_element fails with a ParseError for every    *)
(* input that contains a non-hex character (a leading minus sign, as in    *)
(* "-0x5") and for every input whose decoded bytes exceed 32 bytes.        *)
C21_Original ==
    (fpc = "parsed" /\ (~IsFieldString(fstr) \/ TooManyBytes(fstr))) =>
        IsErr(fparsed, "ParseError")

(* The half of C21 that the code keeps: a non-hex character is rejected.   *)
NonHexCharacterRejected ==
    (fpc = "parsed" /\ ~IsFieldString(fstr)) => IsErr(fparsed, "ParseError")

(* 33 decoded bytes are cut to the low 32 bytes: 2^256 is parsed to 0 *)
OverLengthAccepted ==
    /\ fpc = "parsed"
    /\ fstr = S_33bytes
    /\ TooManyBytes(fstr)
    /\ fparsed = Ok(0)

----------------------------------------------------------------------------
(* VerifyingKeyAccount::validate (state.rs): never called by verify_groth16 *)
MAX_PUBLIC_INPUTS == 16
validate(vk) == Len(vk.k) = vk.nr_pubinputs + 1 /\ vk.nr_pubinputs <= MAX_PUBLIC_INPUTS

(* C22 as stated: for every VerifyingKeyAccount value (also one whose k    *)
(* list is empty or not of length nr_pubinputs + 1), every proof and every *)
(* input vector, verify_groth16 returns Ok or Err(VerifierError) and never *)
(* aborts.                                                                 *)
C22_Original ==
    Verified => verifyRun.run.out.tag \in {"Ok", "Err"}

(* With a key that passes validate() the verifier always returns.          *)
ValidatedKeyNeverAborts ==
    (Verified /\ validate(vkAccount)) => verifyRun.run.out.tag \in {"Ok", "Err"}

(* an empty k list with a count of 0 and no inputs: vk.k[0] is out of bounds *)
EmptyKAborts ==
    /\ Verified
    /\ vkAccount.k = <<>>
    /\ vkAccount.nr_pubinputs = 0
    /\ chainInputs = <<>>
    /\ verifyRun.run.out = Panic
    /\ verifyRun.run.calls = <<>>

(* a k list one entry short: vk.k[i + 1] is out of bounds after the first *)
(* multiplication and addition                                             *)
ShortKAborts ==
    /\ Verified
    /\ vkAccount.nr_pubinputs = 2
    /\ Len(vkAccount.k) = 2
    /\ Len(chainInputs) = 2
    /\ verifyRun.run.out = Panic
    /\ Len(verifyRun.run.calls) = 2

----------------------------------------------------------------------------
(* lib.rs: the witness map that prove and prove_from_r1cs build from the   *)
(* witness JSON and hand to groth16::prove.                                *)

DecDigits == <<"0", "1", "2", "3", "4", "5", "6", "7", "8", "9">>
IsDecDigit(c) == \E i \in 1 .. 10 : DecDigits[i] = c
DecDigitValue(c) == (CHOOSE i \in 1 .. 10 : DecDigits[i] = c) - 1

RECURSIVE DecValue(_)
DecValue(chars) ==
    IF Len(chars) = 0 THEN 0
    ELSE 10 * DecValue(SubSeq(chars, 1, Len(chars) - 1)) + DecDigitValue(chars[Len(chars)])

(* key.parse::<u32>(): an optional "+", then at least one decimal digit,   *)
(* and a value that fits the integer                                       *)
u32_from_str(key) ==
    LET digits == IF Len(key) > 0 /\ key[1] = "+" THEN Tail(key) ELSE key
    IN  IF Len(digits) = 0 \/ \E i \in 1 .. Len(digits) : ~IsDecDigit(digits[i])
        THEN Err("InvalidWitnessIndex")
        ELSE IF DecValue(digits) > U32_MAX THEN Err("InvalidWitnessIndex")
        ELSE Ok(DecValue(digits))

(* for (key, value) in witness_map { ... witness.insert(idx, fr); } *)
RECURSIVE InsertEntries(_, _, _)
InsertEntries(json_map, i, wmap) ==
    IF i > Len(json_map) THEN Ok(wmap)
    ELSE AndThen(u32_from_str(json_map[i][1]), LAMBDA idx :
         AndThen(parse_field_element(json_map[i][2]), LAMBDA fr :
         InsertEntries(json_map, i + 1, MapInsert(wmap, idx, fr))))

(* prove: witness.insert(0, 1), then the entries of the JSON *)
prove_witness(json_map) == InsertEntries(json_map, 1, (0 :> 1))

(* prove_from_r1cs: the same lines *)
prove_from_r1cs_witness(json_map) == InsertEntries(json_map, 1, (0 :> 1))

MaxJsonEntries == 2

JsonKeyPool == {<<"0">>, <<"1">>, <<"2">>, <<"0", "0">>, <<"x">>}
JsonValuePool == {S_1, S_5, S_minus5}

(* A HashMap<String, String> in the order its iteration yields: the keys   *)
(* are distinct strings, the order is arbitrary.                           *)
WitnessJsonInputs ==
    {j \in SeqsUpTo(JsonKeyPool \X JsonValuePool, MaxJsonEntries) :
        \A a, b \in 1 .. Len(j) : a # b => j[a][1] # j[b][1]}

InitJson ==
    /\ PipeIdle
    /\ CodecIdle
    /\ ConvIdle
    /\ CircIdle
    /\ ParseIdle
    /\ ChainIdle
    /\ IxIdle
    /\ NegIdle
    /\ SynthIdle
    /\ wpc = "json"
    /\ witnessJson \in WitnessJsonInputs
    /\ witnessBuilt = None

ProveWitness ==
    /\ wpc = "json"
    /\ witnessBuilt' = prove_witness(witnessJson)
    /\ wpc' = "prove"
    /\ UNCHANGED <<witnessJson, pipeVars, codecVars, convVars, circVars, parseVars,
                   chainVars, ixVars, negVars, synthVars>>

ProveFromR1csWitness ==
    /\ wpc = "json"
    /\ witnessBuilt' = prove_from_r1cs_witness(witnessJson)
    /\ wpc' = "prove_from_r1cs"
    /\ UNCHANGED <<witnessJson, pipeVars, codecVars, convVars, circVars, parseVars,
                   chainVars, ixVars, negVars, synthVars>>

NextJson == ProveWitness \/ ProveFromR1csWitness

SpecJson == InitJson /\ [][NextJson]_vars

WitnessBuilt == wpc \in {"prove", "prove_from_r1cs"} /\ IsOk(witnessBuilt)

(* C23 as stated: the witness map that prove and prove_from_r1cs hand to   *)
(* the prover has index 0 equal to the field's one, whatever entries the   *)
(* witness JSON contains (including an entry for key "0").                 *)
C23_Original ==
    WitnessBuilt => witnessBuilt.val[0] = 1

(* When no key of the JSON parses to index 0, index 0 is one. *)
NoEntryForIndexZero ==
    (WitnessBuilt /\ \A i \in 1 .. Len(witnessJson) : u32_from_str(witnessJson[i][1]) # Ok(0))
        => witnessBuilt.val[0] = 1

(* {"0": " 0x5 "}: the entry replaces the one that was inserted first *)
KeyZeroOverwritesOne ==
    /\ wpc = "prove"
    /\ witnessJson = <<<<<<"0">>, S_5>>>>
    /\ witnessBuilt = Ok((0 :> 5))

----------------------------------------------------------------------------
(* g1_from_gnark and g2_from_gnark on arbitrary bytes (gnark_compat.rs).   *)

(* 32 big-endian bytes of a number below 256 *)
Bytes32(n) == Vec([k \in 1 .. FIELD_SIZE |-> IF k = FIELD_SIZE THEN n ELSE 0])

(* every pair of coordinates 0 .. Q: on the curve or not, canonical or not *)
G1Encodings == {Bytes32(x) \o Bytes32(y) : x, y \in 0 .. Q}

(* the generator, its double, infinity, a pair that is not on the twist,   *)
(* and the generator with a coordinate that is not reduced                 *)
G2Encodings ==
    {Q_gen, Q_two, Vec([k \in 1 .. G2_SIZE |-> 0]),
     Bytes32(1) \o Bytes32(0) \o Bytes32(1) \o Bytes32(0),
     Bytes32(1) \o Bytes32(2) \o Bytes32(3) \o Bytes32(5),
     Bytes32(1 + Q) \o Bytes32(2) \o Bytes32(3) \o Bytes32(4)}

InitDecode ==
    /\ PipeIdle
    /\ ConvIdle
    /\ MoreIdle
    /\ cpc = "encoded"
    /\ cval = None
    /\ cbytes \in [fr : {fr_to_be_bytes(1)}, g1 : G1Encodings, g2 : G2Encodings]
    /\ cdec = None

NextDecode == CodecDecode

SpecDecode == InitDecode /\ [][NextDecode]_vars

(* the coordinates that the bytes stand for *)
G1Coords(bytes) ==
    [x |-> from_be_bytes_mod_order(Slice(bytes, 0, 32), Q),
     y |-> from_be_bytes_mod_order(Slice(bytes, 32, 64), Q)]
G2Coords(bytes) ==
    [x |-> <<from_be_bytes_mod_order(Slice(bytes, 0, 32), Q),
             from_be_bytes_mod_order(Slice(bytes, 32, 64), Q)>>,
     y |-> <<from_be_bytes_mod_order(Slice(bytes, 64, 96), Q),
             from_be_bytes_mod_order(Slice(bytes, 96, 128), Q)>>]
EncodesG1Point(bytes) ==
    \E p \in G1Points : ~p.infinity /\ p.x = G1Coords(bytes).x /\ p.y = G1Coords(bytes).y
EncodesG2Point(bytes) ==
    \E p \in G2Points : ~p.infinity /\ p.x = G2Coords(bytes).x /\ p.y = G2Coords(bytes).y

(* C24 as stated: for every 64-byte (G1) or 128-byte (G2) input that is    *)
(* not all-zero and does not encode a valid curve point, g1_from_gnark and *)
(* g2_from_gnark return a ParseError to the caller instead of terminating  *)
(* the process.                                                            *)
C24_Original ==
    cpc = "decoded" =>
        /\ (~AllZero(cbytes.g1) /\ ~EncodesG1Point(cbytes.g1)) => IsErr(cdec.g1, "ParseError")
        /\ (~AllZero(cbytes.g2) /\ ~EncodesG2Point(cbytes.g2)) => IsErr(cdec.g2, "ParseError")

(* What the decoders do: zero bytes are infinity, the bytes of a point of  *)
(* the group are that point, and every other input ends in the assertion   *)
(* of Affine::new.                                                         *)
DecodersAssertValidity ==
    cpc = "decoded" =>
        /\ cdec.g1 = (IF AllZero(cbytes.g1) THEN Ok(G1Zero)
                      ELSE IF EncodesG1Point(cbytes.g1)
                      THEN Ok([infinity |-> FALSE, x |-> G1Coords(cbytes.g1).x,
                               y |-> G1Coords(cbytes.g1).y])
                      ELSE Panic)
        /\ cdec.g2 = (IF AllZero(cbytes.g2) THEN Ok(G2Zero)
                      ELSE IF EncodesG2Point(cbytes.g2)
                      THEN Ok([infinity |-> FALSE, x |-> G2Coords(cbytes.g2).x,
                               y |-> G2Coords(cbytes.g2).y])
                      ELSE Panic)

(* x = 1, y = 1 is not on y^2 = x^3 + 3: the decoder aborts *)
OffCurveG1Aborts ==
    /\ cpc = "decoded"
    /\ cbytes.g1 = Bytes32(1) \o Bytes32(1)
    /\ cdec.g1 = Panic

OffCurveG2Aborts ==
    /\ cpc = "decoded"
    /\ cbytes.g2 = Bytes32(1) \o Bytes32(0) \o Bytes32(1) \o Bytes32(0)
    /\ cdec.g2 = Panic

----------------------------------------------------------------------------
(* Constraint synthesis on its own: generate_constraints as setup calls it *)
(* (no witness, setup mode) and as prove calls it (a witness).             *)

SynthInputs ==
    {AcirCircuitSynthesizer_new(r, w) :
        r \in R1csInputs, w \in {None} \cup {Some(m) : m \in WitnessInputs}}

InitSynth ==
    /\ PipeIdle
    /\ CodecIdle
    /\ ConvIdle
    /\ CircIdle
    /\ ParseIdle
    /\ ChainIdle
    /\ IxIdle
    /\ NegIdle
    /\ JsonIdle
    /\ spc = "circuit"
    /\ synthSelf \in SynthInputs
    /\ synthResult = None

GenerateConstraints ==
    /\ spc = "circuit"
    /\ synthResult' =
          [alloc |-> AllocateVariables(synthSelf, NewCS(synthSelf.witness = None)),
           cs |-> generate_constraints(synthSelf, NewCS(synthSelf.witness = None))]
    /\ spc' = "synthesized"
    /\ UNCHANGED <<synthSelf, pipeVars, codecVars, convVars, circVars, parseVars,
                   chainVars, ixVars, negVars, jsonVars>>

NextSynth == GenerateConstraints

SpecSynth == InitSynth /\ [][NextSynth]_vars

Synthesized == spc = "synthesized" /\ IsOk(synthResult.cs)
Publics == synthSelf.r1cs.public_inputs
PublicSet == {Publics[k] : k \in 1 .. Len(Publics)}
Variables == synthResult.alloc.val.variables
PrivateSet == (1 .. (synthSelf.r1cs.num_witnesses - 1)) \ PublicSet
LastDeclared(k) == \A m \in (k + 1) .. Len(Publics) : Publics[m] # Publics[k]

(* every declared public index is an instance variable, allocated in the   *)
(* declared order (one per entry of the list), and every other index of    *)
(* 1 .. num_witnesses - 1 is a private variable allocated exactly once     *)
PublicAndPrivateAllocation ==
    /\ synthResult.cs.val.num_instance_variables = 1 + Len(Publics)
    /\ \A k \in 1 .. Len(Publics) :
          LastDeclared(k) => Variables[Publics[k]] = VarInstance(k)
    /\ synthResult.cs.val.num_witness_variables = Cardinality(PrivateSet)
    /\ \A i \in PrivateSet : Variables[i].kind = "Witness"
    /\ \A i, j \in PrivateSet : i # j => Variables[i] # Variables[j]
    /\ DOMAIN Variables = {0} \cup PublicSet \cup PrivateSet

(* C25 as stated: for every R1CS (also one whose public index list holds   *)
(* 0, a repeated index, or an index not below num_witnesses), index 0 is   *)
(* bound to the constant-one variable, each declared public index is a     *)
(* public variable in declared order, and every other index in             *)
(* 1 .. num_witnesses - 1 is allocated exactly once as a private variable. *)
C25_Original ==
    Synthesized => (Variables[0] = VarOne /\ PublicAndPrivateAllocation)

(* All of it but the binding of index 0 holds for every R1CS, and the      *)
(* binding of index 0 holds when 0 is not declared public.                 *)
AllocationWithoutPublicZero ==
    Synthesized =>
        /\ PublicAndPrivateAllocation
        /\ 0 \notin PublicSet => Variables[0] = VarOne

(* public_inputs = [0]: index 0 is rebound to the first instance variable *)
PublicZeroReplacesOne ==
    /\ Synthesized
    /\ Publics = <<0>>
    /\ Variables[0] = VarInstance(1)

----------------------------------------------------------------------------
(* negate_g2 on its own (verifier.rs).                                     *)

(* coordinates 0, 1, 3 and Q - 1, and Q and Q + 2, which are not reduced *)
CoordinatePool == {0, 1, 3, Q - 1, Q, Q + 2}

G2Inputs ==
    {Bytes32(a) \o Bytes32(b) \o Bytes32(c) \o Bytes32(d) :
        a \in CoordinatePool, b \in CoordinatePool,
        c \in CoordinatePool, d \in CoordinatePool}

InitNeg ==
    /\ PipeIdle
    /\ CodecIdle
    /\ ConvIdle
    /\ CircIdle
    /\ ParseIdle
    /\ ChainIdle
    /\ IxIdle
    /\ SynthIdle
    /\ JsonIdle
    /\ npc = "point"
    /\ g2Input \in G2Inputs
    /\ g2Negated = None

NegateG2 ==
    /\ npc = "point"
    /\ g2Negated' = [once |-> negate_g2(g2Input),
                     twice |-> Bind(negate_g2(g2Input), negate_g2)]
    /\ npc' = "negated"
    /\ UNCHANGED <<g2Input, pipeVars, codecVars, convVars, circVars, parseVars,
                   chainVars, ixVars, synthVars, jsonVars>>

NextNeg == NegateG2

SpecNeg == InitNeg /\ [][NextNeg]_vars

(* 32 bytes are canonical when they are the encoding of their own value *)
CanonicalFq(bytes) == fq_to_be_bytes(from_be_bytes_mod_order(bytes, Q)) = bytes
CanonicalG2(bytes) ==
    /\ CanonicalFq(Slice(bytes, 0, 32))
    /\ CanonicalFq(Slice(bytes, 32, 64))
    /\ CanonicalFq(Slice(bytes, 64, 96))
    /\ CanonicalFq(Slice(bytes, 96, 128))
NegatedBytes(bytes) == fq_to_be_bytes((Q - from_be_bytes_mod_order(bytes, Q)) % Q)

(* C26: negate_g2 never returns an error; the x.c0 and x.c1 bytes of a     *)
(* canonical input are unchanged; y.c0 and y.c1 are replaced by their      *)
(* additive inverses modulo the base field; applying it twice returns the  *)
(* original canonical encoding; the all-zero encoding maps to itself.     *)
C26_NegateG2 ==
    npc = "negated" =>
        /\ IsOk(g2Negated.once.out)
        /\ IsOk(g2Negated.twice.out)
        /\ Len(g2Negated.once.out.val) = G2_SIZE
        /\ CanonicalFq(Slice(g2Input, 0, 32)) =>
              Slice(g2Negated.once.out.val, 0, 32) = Slice(g2Input, 0, 32)
        /\ CanonicalFq(Slice(g2Input, 32, 64)) =>
              Slice(g2Negated.once.out.val, 32, 64) = Slice(g2Input, 32, 64)
        /\ Slice(g2Negated.once.out.val, 64, 96) = NegatedBytes(Slice(g2Input, 64, 96))
        /\ Slice(g2Negated.once.out.val, 96, 128) = NegatedBytes(Slice(g2Input, 96, 128))
        /\ CanonicalG2(g2Input) => g2Negated.twice.out.val = g2Input
        /\ AllZero(g2Input) => g2Negated.once.out.val = g2Input

(* x = (1, 3), y = (3, 1): the negation has y = (Q - 3, Q - 1) *)
C26_Witness ==
    /\ npc = "negated"
    /\ g2Input = Bytes32(1) \o Bytes32(3) \o Bytes32(3) \o Bytes32(1)
    /\ g2Negated.once.out =
          Ok(Bytes32(1) \o Bytes32(3) \o Bytes32(Q - 3) \o Bytes32(Q - 1))
    /\ g2Negated.twice.out = Ok(g2Input)

----------------------------------------------------------------------------
(* The constraint of an expression under a witness assignment.             *)

(* assignments of the indices 0 .. 3 with w0 = 1 *)
Assignments == {w \in [0 .. 3 -> Fr] : w[0] = 1}

RECURSIVE LcValue(_, _)
LcValue(terms, w) ==
    IF Len(terms) = 0 THEN 0
    ELSE FrAdd(FrMul(terms[1][1], w[terms[1][2]]), LcValue(Tail(terms), w))

ConstraintHolds(constraint, w) ==
    FrMul(LcValue(constraint.a, w), LcValue(constraint.b, w)) = LcValue(constraint.c, w)

RECURSIVE LinearValue(_, _)
LinearValue(linear, w) ==
    IF Len(linear) = 0 THEN 0
    ELSE FrAdd(FrMul(FieldOf(linear[1][1]), w[linear[1][2]]), LinearValue(Tail(linear), w))

RECURSIVE MulValue(_, _)
MulValue(mul_terms, w) ==
    IF Len(mul_terms) = 0 THEN 0
    ELSE FrAdd(FrMul(FieldOf(mul_terms[1][1]),
                     FrMul(w[mul_terms[1][2]], w[mul_terms[1][3]])),
               MulValue(Tail(mul_terms), w))

ExpressionValue(e, w) ==
    FrAdd(FrAdd(MulValue(e.mul_terms, w), LinearValue(e.linear_combinations, w)),
          FieldOf(e.q_c))

AllCoefficientsParse(e) ==
    /\ IsFieldString(e.q_c)
    /\ \A i \in 1 .. Len(e.linear_combinations) : IsFieldString(e.linear_combinations[i][1])
    /\ \A i \in 1 .. Len(e.mul_terms) : IsFieldString(e.mul_terms[i][1])

(* C27: for every AssertZero expression with zero or one multiplication    *)
(* term and every witness assignment with w0 = 1, the single constraint    *)
(* emitted by expression_to_r1cs satisfies A*B = C in the field if and     *)
(* only if (sum of linear terms + the multiplication term + constant) is   *)
(* 0 under that assignment, zero coefficients and terms that reference     *)
(* index 0 included.                                                       *)
C27_ConstraintMeansExpressionIsZero ==
    (xpc = "converted" /\ Len(expr.mul_terms) <= 1 /\ AllCoefficientsParse(expr)) =>
        /\ IsOk(exprResult)
        /\ Len(exprResult.val) = 1
        /\ \A w \in Assignments :
              ConstraintHolds(exprResult.val[1], w) <=> ExpressionValue(expr, w) = 0

(* 3*w2*w2 + 3*w0 + (-1)*w3 + 5 = 0: satisfied by w2 = 1, w3 = 11 and not *)
(* by w2 = 1, w3 = 0                                                       *)
C27_Witness ==
    /\ xpc = "converted"
    /\ expr = [mul_terms |-> <<<<S_3, 2, 2>>>>,
               linear_combinations |-> <<<<S_3, 0>>, <<S_neg1, 3>>>>,
               q_c |-> S_5]
    /\ IsOk(exprResult)
    /\ ConstraintHolds(exprResult.val[1], (0 :> 1) @@ (1 :> 0) @@ (2 :> 1) @@ (3 :> 11))
    /\ ExpressionValue(expr, (0 :> 1) @@ (1 :> 0) @@ (2 :> 1) @@ (3 :> 11)) = 0
    /\ ~ConstraintHolds(exprResult.val[1], (0 :> 1) @@ (1 :> 0) @@ (2 :> 1) @@ (3 :> 0))
    /\ ExpressionValue(expr, (0 :> 1) @@ (1 :> 0) @@ (2 :> 1) @@ (3 :> 0)) # 0

----------------------------------------------------------------------------
(* Terms without a variable (acir_to_r1cs.rs, build_lc).                   *)

(* the indices that synthesis allocates, and those of an assignment that   *)
(* prove needs                                                             *)
AllocatedIndices == {0} \cup PublicSet \cup PrivateSet
AssignmentComplete ==
    synthSelf.witness = None \/ (PublicSet \cup PrivateSet) \subseteq DOMAIN synthSelf.witness.val

(* the terms of a linear combination whose index is allocated, in order *)
RECURSIVE AllocatedTerms(_)
AllocatedTerms(terms) ==
    IF Len(terms) = 0 THEN <<>>
    ELSE IF terms[1][2] \in AllocatedIndices
         THEN <<<<terms[1][1], Variables[terms[1][2]]>>>> \o AllocatedTerms(Tail(terms))
         ELSE AllocatedTerms(Tail(terms))

(* C28: a constraint term whose witness index has no allocated variable    *)
(* (an index >= num_witnesses that is not a declared public index) is      *)
(* silently omitted from the enforced linear combination by build_lc:      *)
(* synthesis still succeeds, and the constraint is enforced without that   *)
(* term, rather than an error being raised.                                *)
C28_UnallocatedTermOmitted ==
    spc = "synthesized" =>
        /\ AssignmentComplete <=> IsOk(synthResult.cs)
        /\ ~AssignmentComplete => synthResult.cs = Err("AssignmentMissing")
        /\ IsOk(synthResult.cs) =>
              /\ Len(synthResult.cs.val.constraints) = Len(synthSelf.r1cs.constraints)
              /\ \A j \in 1 .. Len(synthSelf.r1cs.constraints) :
                    /\ synthResult.cs.val.constraints[j].a
                          = AllocatedTerms(synthSelf.r1cs.constraints[j].a)
                    /\ synthResult.cs.val.constraints[j].b
                          = AllocatedTerms(synthSelf.r1cs.constraints[j].b)
                    /\ synthResult.cs.val.constraints[j].c
                          = AllocatedTerms(synthSelf.r1cs.constraints[j].c)

(* w1 * w2 = w3 + w4 with num_witnesses = 4 and w4 not public: the         *)
(* constraint that is enforced is w1 * w2 = w3                             *)
C28_Witness ==
    /\ Synthesized
    /\ synthSelf.witness # None
    /\ 4 \notin AllocatedIndices
    /\ synthSelf.r1cs.constraints = <<K_ext>>
    /\ synthResult.cs.val.constraints
          = <<[a |-> <<<<1, Variables[1]>>>>,
               b |-> <<<<1, Variables[2]>>>>,
               c |-> <<<<1, Variables[3]>>>>]>>

----------------------------------------------------------------------------
(* The program's verify_proof instruction (solana-contracts, lib.rs).      *)

(* Groth16Proof::from_bytes (state.rs) *)
Groth16Proof_from_bytes(bytes) ==
    IF Len(bytes) # PROOF_SIZE THEN None
    ELSE Some([a |-> Slice(bytes, 0, G1_SIZE),
               b |-> Slice(bytes, G1_SIZE, G1_SIZE + G2_SIZE),
               c |-> Slice(bytes, G1_SIZE + G2_SIZE, PROOF_SIZE)])

(* verify_proof: logs the length of the proof and returns Ok(()); its      *)
(* context VerifyProof {} holds no account                                 *)
verify_proof(ctx, proof) == Ok(<<>>)

(* the keys that an account can store after validate() *)
StoredKeys == {vk \in VkAccounts : validate(vk) /\ vk.alpha_g1 = P_gen}

(* no byte, one byte, 255 and 257 bytes, and proofs of 256 bytes *)
ProofBytesInputs ==
    {<<>>, <<0>>, <<1>>,
     SubSeq(P_gen \o Q_gen \o P_two, 1, PROOF_SIZE - 1),
     Append(P_gen \o Q_gen \o P_two, 0),
     P_gen \o Q_gen \o P_two,
     P_off \o Q_gen \o P_two}

InitIx ==
    /\ PipeIdle
    /\ CodecIdle
    /\ ConvIdle
    /\ CircIdle
    /\ ParseIdle
    /\ NegIdle
    /\ SynthIdle
    /\ JsonIdle
    /\ vpc = "idle"
    /\ vkAccount \in StoredKeys
    /\ chainProof = None
    /\ chainInputs = <<>>
    /\ verifyRun = None
    /\ ipc = "instruction"
    /\ ixProof \in ProofBytesInputs
    /\ ixResult = None

VerifyProof ==
    /\ ipc = "instruction"
    /\ ixResult' = verify_proof([program_id |-> "izi_noir", accounts |-> <<>>], ixProof)
    /\ ipc' = "returned"
    /\ UNCHANGED <<ixProof, pipeVars, codecVars, convVars, circVars, parseVars,
                   chainVars, negVars, synthVars, jsonVars>>

NextIx == VerifyProof

SpecIx == InitIx /\ [][NextIx]_vars

(* the proof passes verify_groth16 against the stored key, for some public *)
(* inputs, when the pairing primitive answers 1                            *)
PassesGroth16(bytes) ==
    /\ Groth16Proof_from_bytes(bytes) # None
    /\ \E inputs \in SeqsUpTo(ScalarPool, MaxChainInputs) :
       \E outcome \in PairingOutcomes :
          verify_groth16(vkAccount, Groth16Proof_from_bytes(bytes).val,
                         inputs, outcome).out = Ok(<<>>)

(* C29 as stated: the instruction returns success only when the supplied   *)
(* proof is exactly 256 bytes and passes the Groth16 pairing check of      *)
(* verify_groth16 against a stored verifying key; it returns an error for  *)
(* every other proof.                                                      *)
C29_Original ==
    ipc = "returned" =>
        IsOk(ixResult) <=> (Len(ixProof) = PROOF_SIZE /\ PassesGroth16(ixProof))

(* an empty proof is accepted *)
EmptyProofAccepted ==
    /\ ipc = "returned"
    /\ ixProof = <<>>
    /\ ixResult = Ok(<<>>)

(* What the instruction does: it succeeds for every proof. *)
InstructionAlwaysSucceeds ==
    ipc = "returned" => ixResult = Ok(<<>>)

----------------------------------------------------------------------------
(* The order of the host calls of verify_groth16.                          *)

(* the i-th host call of a verification with n inputs: multiplication and  *)
(* addition for each input, the multiplication that negates alpha, the     *)
(* pairing                                                                 *)
ExpectedOp(i, n) ==
    IF i = 2 * n + 2 THEN "pairing"
    ELSE IF i = 2 * n + 1 THEN "g1_mul"
    ELSE IF i % 2 = 1 THEN "g1_mul" ELSE "g1_add"

CallsOf(op) == {i \in 1 .. Len(verifyRun.run.calls) : verifyRun.run.calls[i].op = op}

(* C30: in verify_groth16 with n inputs matching the count of a key that   *)
(* holds its n + 1 points, host calls happen in a fixed order: for         *)
(* i = 0 .. n-1 one G1 multiplication followed by one G1 addition, then    *)
(* one G1 multiplication to negate alpha, then exactly one pairing call    *)
(* (n+1 multiplications, n additions, 1 pairing in total); the first       *)
(* failing host call ends verification with its error and no later host    *)
(* call, in particular no pairing call, is made.  The order and the end at *)
(* the first failure hold for every key.                                   *)
C30_HostCallOrder ==
    (Verified /\ CountMatches) =>
        LET calls == verifyRun.run.calls
            n == Len(chainInputs)
        IN  /\ Len(calls) <= 2 * n + 2
            /\ \A i \in 1 .. Len(calls) : calls[i].op = ExpectedOp(i, n)
            /\ \A i \in 1 .. Len(calls) : ~IsOk(calls[i].out) =>
                  /\ i = Len(calls)
                  /\ verifyRun.run.out = Err(FailureCode(calls[i].op))
                  /\ calls[i].op # "pairing" => CallsOf("pairing") = {}
            /\ (/\ Len(vkAccount.k) = n + 1
                /\ \A i \in 1 .. Len(calls) : IsOk(calls[i].out)) =>
                  /\ Len(calls) = 2 * n + 2
                  /\ Cardinality(CallsOf("g1_mul")) = n + 1
                  /\ Cardinality(CallsOf("g1_add")) = n
                  /\ Cardinality(CallsOf("pairing")) = 1

(* two inputs and no failure: six host calls *)
C30_Witness ==
    /\ Verified
    /\ vkAccount.nr_pubinputs = 2
    /\ vkAccount.k = <<P_gen, P_gen, P_two>>
    /\ vkAccount.alpha_g1 = P_gen
    /\ Len(chainInputs) = 2
    /\ Len(verifyRun.run.calls) = 6
    /\ [i \in 1 .. 6 |-> verifyRun.run.calls[i].op]
          = <<"g1_mul", "g1_add", "g1_mul", "g1_add", "g1_mul", "pairing">>
    /\ verifyRun.run.out = Ok(<<>>)

(* the second multiplication fails: three host calls and no pairing *)
C30_FailureEndsVerification ==
    /\ Verified
    /\ vkAccount.nr_pubinputs = 2
    /\ vkAccount.k = <<P_gen, P_gen, P_off>>
    /\ Len(chainInputs) = 2
    /\ Len(verifyRun.run.calls) = 3
    /\ ~IsOk(verifyRun.run.calls[3].out)
    /\ verifyRun.run.out = Err("G1MulFailed")

====
